---------------------------- MODULE Spec2Model ----------------------------
(***************************************************************************)
(* A model of markdown-to-confluence's convert.py: the front-matter        *)
(* splitter parse(), the ConfluenceRenderer callbacks and the top-level    *)
(* entry convtoconf().                                                     *)
(*                                                                         *)
(* Text.  A Python str is modelled as a sequence of strings whose          *)
(* concatenation is the Python value.  Data characters (image              *)
(* sources, link targets, heading text, file contents) and the paragraph   *)
(* tags <p> and </p> are always spelled one character per element, so      *)
(* that find / count / replace / strip / basename work on characters as    *)
(* in Python.  Fixed markup that convert.py only ever copies to its        *)
(* output is kept as multi-character elements; none of them contains,      *)
(* starts or ends a part of "<p>" or "</p>", so searching for the          *)
(* paragraph tags gives the same answer as on the flattened string.        *)
(*                                                                         *)
(* Characters.  A character is one element: the ASCII characters as the    *)
(* table Ascii spells them (a character a string of this module cannot     *)
(* hold has a name in parentheses, "(0x0b)" for the vertical tab,          *)
(* "(grave)" for the grave accent) and the few characters beyond ASCII     *)
(* named in NonAscii.                                                      *)
(***************************************************************************)
EXTENDS Integers, Sequences, FiniteSets, TLC

VARIABLES
    renderer,      \* the ConfluenceRenderer instance: attachments, authors, has_toc, top_heading
    authors_arg,   \* the `authors` argument the renderer was constructed with
    call,          \* the last renderer callback: [op, args, ret]
    ncalls,        \* number of callbacks made so far
    images,        \* history: every src passed to image(), in call order
    hlevels,       \* history: the levels heading() has been called with
    h1first,       \* history: the text of the first level-1 heading() call, if any
    suppressed,    \* history: the texts of the heading() calls that returned empty output
    front_matter,  \* convtoconf: its front_matter argument
    pc,            \* "direct": callbacks called by hand; convtoconf: "render", then "done" or "raised"
    body,          \* convtoconf: the callbacks' outputs so far, joined (the engine's finalize)
    layout_calls,  \* convtoconf: number of layout() invocations during the run
    result,        \* convtoconf: the returned (page_html, attachments, title)
    post,          \* parse: the text of the file at post_path
    y_block,       \* parse, input: the YAML block Y the file was written from
    m_body,        \* parse, input: the Markdown body B the file was written from
    boundaries,    \* parse, input: how many boundary lines were written around Y (0, 1, 2)
    unread,        \* parse: the lines of post.readlines() not yet looked at
    raw_yaml,      \* parse: local raw_yaml
    markdown,      \* parse: local markdown
    in_yaml,       \* parse: local in_yaml
    parsed         \* parse: None while running, then what it returned or raised

rvars == <<renderer, authors_arg, call, ncalls, images, hlevels, h1first, suppressed>>
cvars == <<front_matter, pc, body, layout_calls, result>>
pvars == <<post, y_block, m_body, boundaries, unread, raw_yaml, markdown, in_yaml, parsed>>

-----------------------------------------------------------------------------
(* Bounds *)

MaxCalls == 3
MaxAuthors == 2
MaxBodyLines == 3

-----------------------------------------------------------------------------
(* Python values *)

\* None and a present value, for the places where the code tests `is None`
\* or uses dict.get with a default.
NoneV == [some |-> FALSE, val |-> <<>>]
Some(v) == [some |-> TRUE, val |-> v]

Min(S) == CHOOSE x \in S : \A y \in S : x <= y
Max(S) == CHOOSE x \in S : \A y \in S : x >= y

-----------------------------------------------------------------------------
(* Characters *)

\* The ASCII characters by code point: Ascii[c + 1] is chr(c).
Ascii ==
    <<"(0x00)", "(0x01)", "(0x02)", "(0x03)", "(0x04)", "(0x05)", "(0x06)", "(0x07)",
      "(0x08)", "\t", "\n", "(0x0b)", "\f", "\r", "(0x0e)", "(0x0f)",
      "(0x10)", "(0x11)", "(0x12)", "(0x13)", "(0x14)", "(0x15)", "(0x16)", "(0x17)",
      "(0x18)", "(0x19)", "(0x1a)", "(0x1b)", "(0x1c)", "(0x1d)", "(0x1e)", "(0x1f)",
      " ", "!", "\"", "#", "$", "%", "&", "'",
      "(", ")", "*", "+", ",", "-", ".", "/",
      "0", "1", "2", "3", "4", "5", "6", "7",
      "8", "9", ":", ";", "<", "=", ">", "?",
      "@", "A", "B", "C", "D", "E", "F", "G",
      "H", "I", "J", "K", "L", "M", "N", "O",
      "P", "Q", "R", "S", "T", "U", "V", "W",
      "X", "Y", "Z", "[", "\\", "]", "^", "_",
      "(grave)", "a", "b", "c", "d", "e", "f", "g",
      "h", "i", "j", "k", "l", "m", "n", "o",
      "p", "q", "r", "s", "t", "u", "v", "w",
      "x", "y", "z", "{", "|", "}", "~", "(0x7f)">>

NUL == "(0x00)"
NEL == "(U+0085)"
NBSP == "(U+00A0)"
E_ACUTE == "(U+00E9)"
LS == "(U+2028)"
PS == "(U+2029)"

\* The characters beyond ASCII the model has, with their code points.
NonAscii == {<<NEL, 133>>, <<NBSP, 160>>, <<E_ACUTE, 233>>, <<LS, 8232>>, <<PS, 8233>>}

IsAscii(c) == \E k \in 1..Len(Ascii) : Ascii[k] = c

\* ord(c)
Ord(c) ==
    IF IsAscii(c) THEN (CHOOSE k \in 1..Len(Ascii) : Ascii[k] = c) - 1
    ELSE (CHOOSE e \in NonAscii : e[1] = c)[2]

\* Whether the model has the character chr(n).
HasChr(n) == n \in 0..127 \/ \E e \in NonAscii : e[2] = n

\* chr(n)
Chr(n) == IF n \in 0..127 THEN Ascii[n + 1] ELSE (CHOOSE e \in NonAscii : e[2] = n)[1]

Digits == {"0", "1", "2", "3", "4", "5", "6", "7", "8", "9"}
HexDigits == Digits \cup {"a", "b", "c", "d", "e", "f", "A", "B", "C", "D", "E", "F"}

\* int(c, 16) of one hexadecimal digit
HexVal(c) ==
    IF c \in Digits THEN Ord(c) - 48
    ELSE IF c \in {"a", "b", "c", "d", "e", "f"} THEN Ord(c) - 87
    ELSE Ord(c) - 55

Lower ==
    {"a","b","c","d","e","f","g","h","i","j","k","l","m","n","o","p","q","r","s","t",
     "u","v","w","x","y","z"}
Upper ==
    {"A","B","C","D","E","F","G","H","I","J","K","L","M","N","O","P","Q","R","S","T",
     "U","V","W","X","Y","Z"}
Alpha == Lower \cup Upper

\* str.lower() of one character
LowerChar(c) == IF c \in Upper THEN Chr(Ord(c) + 32) ELSE c

-----------------------------------------------------------------------------
(* str methods *)

\* s[i:i+len(p)] == p   (i is 1-based)
MatchAt(s, p, i) ==
    /\ i + Len(p) - 1 <= Len(s)
    /\ \A k \in 1..Len(p) : s[i + k - 1] = p[k]

\* The index of the first occurrence of p in s at or after i; 0 when none.
FindFrom(s, p, i) ==
    LET ks == {k \in i..Len(s) : MatchAt(s, p, k)}
    IN IF ks = {} THEN 0 ELSE Min(ks)

RECURSIVE CountFrom(_, _, _)
CountFrom(s, p, i) ==
    LET k == FindFrom(s, p, i)
    IN IF k = 0 THEN 0 ELSE 1 + CountFrom(s, p, k + Len(p))

\* str.count(p): the number of non-overlapping occurrences, left to right.
Count(s, p) == CountFrom(s, p, 1)

RECURSIVE ReplaceFrom(_, _, _, _)
ReplaceFrom(s, p, r, i) ==
    LET k == FindFrom(s, p, i)
    IN IF k = 0 THEN SubSeq(s, i, Len(s))
       ELSE SubSeq(s, i, k - 1) \o r \o ReplaceFrom(s, p, r, k + Len(p))

\* str.replace(p, r): every non-overlapping occurrence, left to right.
Replace(s, p, r) == ReplaceFrom(s, p, r, 1)

\* str.find(c, start) for a single character, 1-based; 0 when absent.
FindChar(s, c, start) ==
    LET ks == {k \in start..Len(s) : s[k] = c}
    IN IF ks = {} THEN 0 ELSE Min(ks)

\* The characters str.isspace() holds for, which strip() removes.
Whitespace ==
    {" ", "\t", "\n", "(0x0b)", "\f", "\r", "(0x1c)", "(0x1d)", "(0x1e)", "(0x1f)",
     NEL, NBSP, LS, PS}

\* str.lstrip(chars)
LStrip(s, chars) ==
    LET ks == {k \in 1..Len(s) : s[k] \notin chars}
    IN IF ks = {} THEN <<>> ELSE SubSeq(s, Min(ks), Len(s))

\* str.rstrip(chars)
RStrip(s, chars) ==
    LET ks == {k \in 1..Len(s) : s[k] \notin chars}
    IN IF ks = {} THEN <<>> ELSE SubSeq(s, 1, Max(ks))

\* str.strip()
Strip(s) == RStrip(LStrip(s, Whitespace), Whitespace)

RECURSIVE Join(_, _)
\* sep.join(parts)
Join(sep, parts) ==
    IF parts = <<>> THEN <<>>
    ELSE IF Len(parts) = 1 THEN parts[1]
    ELSE parts[1] \o sep \o Join(sep, Tail(parts))

RECURSIVE Flatten(_)
\* ''.join(parts)
Flatten(ss) ==
    IF ss = <<>> THEN <<>>
    ELSE IF Len(ss) = 1 THEN ss[1]
    ELSE LET h == Len(ss) \div 2
         IN Flatten(SubSeq(ss, 1, h)) \o Flatten(SubSeq(ss, h + 1, Len(ss)))

-----------------------------------------------------------------------------
(* urllib.parse.urlparse(...).netloc and os.path.basename, as convert.py   *)
(* uses them                                                               *)

SchemeChars == Alpha \cup Digits \cup {"+", "-", "."}

\* _WHATWG_C0_CONTROL_OR_SPACE: the characters up to the space.
C0ControlOrSpace == {Ascii[k] : k \in 1..33}

\* urlsplit: leading C0-control-or-space characters are stripped, then tab,
\* CR and LF are removed everywhere.
CleanUrl(url) ==
    SelectSeq(LStrip(url, C0ControlOrSpace), LAMBDA c : c \notin {"\t", "\r", "\n"})

\* The url after urlsplit has removed a valid "<scheme>:" prefix.
AfterScheme(url) ==
    LET i == FindChar(url, ":", 1)
    IN IF /\ i > 1
          /\ url[1] \in Alpha
          /\ \A k \in 1..(i - 1) : url[k] \in SchemeChars
       THEN SubSeq(url, i + 1, Len(url))
       ELSE url

RECURSIVE Split(_, _)
\* str.split(c) for a single character
Split(s, c) ==
    LET i == FindChar(s, c, 1)
    IN IF i = 0 THEN <<s>>
       ELSE <<SubSeq(s, 1, i - 1)>> \o Split(SubSeq(s, i + 1, Len(s)), c)

Has(s, c) == FindChar(s, c, 1) > 0

\* IPv4Address._parse_octet accepts the text: one to three decimal digits,
\* no leading zero, at most 255.
IsOctet(o) ==
    /\ o # <<>>
    /\ \A k \in 1..Len(o) : o[k] \in Digits
    /\ Len(o) <= 3
    /\ (o = <<"0">> \/ o[1] # "0")
    /\ (Len(o) = 3 =>
           (Ord(o[1]) - 48) * 100 + (Ord(o[2]) - 48) * 10 + (Ord(o[3]) - 48) <= 255)

\* ipaddress.IPv4Address(s) does not raise.
IsIPv4(s) ==
    /\ ~Has(s, "/")
    /\ s # <<>>
    /\ LET octets == Split(s, ".")
       IN Len(octets) = 4 /\ \A k \in 1..4 : IsOctet(octets[k])

\* IPv6Address._parse_hextet accepts the text.
IsHextet(h) == h # <<>> /\ Len(h) <= 4 /\ \A k \in 1..Len(h) : h[k] \in HexDigits

\* IPv6Address._ip_int_from_string(ip_str) does not raise.
IsIPv6Addr(ip_str) ==
    /\ ip_str # <<>>
    /\ LET parts0 == Split(ip_str, ":")
           n0 == Len(parts0)
           v4 == n0 >= 3 /\ Has(parts0[n0], ".")
           \* an IPv4-style suffix is replaced by its two hextets
           parts == IF v4 THEN SubSeq(parts0, 1, n0 - 1) \o <<<<"0">>, <<"0">>>> ELSE parts0
           n == Len(parts)
           skips == {i \in 2..(n - 1) : parts[i] = <<>>}
           skip_index == (CHOOSE i \in skips : TRUE) - 1
           hi0 == skip_index
           lo0 == n - skip_index - 1
           parts_hi == IF parts[1] = <<>> THEN hi0 - 1 ELSE hi0
           parts_lo == IF parts[n] = <<>> THEN lo0 - 1 ELSE lo0
       IN /\ n0 >= 3
          /\ v4 => IsIPv4(parts0[n0])
          /\ n <= 9
          /\ Cardinality(skips) <= 1
          /\ IF skips # {}
             THEN /\ parts[1] = <<>> => parts_hi = 0
                  /\ parts[n] = <<>> => parts_lo = 0
                  /\ 8 - (parts_hi + parts_lo) >= 1
                  /\ \A k \in 1..parts_hi : IsHextet(parts[k])
                  /\ \A k \in (n - parts_lo + 1)..n : IsHextet(parts[k])
             ELSE /\ n = 8
                  /\ \A k \in 1..n : IsHextet(parts[k])

\* ipaddress.IPv6Address(s) does not raise: no "/", a scope id after "%"
\* that is not empty and holds no "%", and an address before it.
IsIPv6(s) ==
    LET i == FindChar(s, "%", 1)
        addr == IF i = 0 THEN s ELSE SubSeq(s, 1, i - 1)
        scope_id == SubSeq(s, i + 1, Len(s))
    IN /\ ~Has(s, "/")
       /\ i > 0 => (scope_id # <<>> /\ ~Has(scope_id, "%"))
       /\ IsIPv6Addr(addr)

\* re.match(r"\Av[a-fA-F0-9]+\..+\Z", hostname), for a hostname without a
\* line feed
IsIPvFuture(hostname) ==
    /\ Len(hostname) >= 4
    /\ hostname[1] = "v"
    /\ LET ks == {k \in 2..Len(hostname) : hostname[k] \notin HexDigits}
           k == IF ks = {} THEN 0 ELSE Min(ks)
       IN k >= 3 /\ hostname[k] = "." /\ k < Len(hostname)

\* _check_bracketed_host(hostname) does not raise: an IPvFuture address
\* when it starts with "v", else an IPv6 address (ip_address tries IPv4
\* first, and an IPv4 address in brackets is refused).
IsBracketedHost(hostname) ==
    IF hostname # <<>> /\ hostname[1] = "v"
    THEN IsIPvFuture(hostname)
    ELSE ~IsIPv4(hostname) /\ IsIPv6(hostname)

\* urlparse(url).netloc: what follows a leading "//" up to the first of
\* / ? #, or that urlparse raises ValueError on an unbalanced or invalid
\* bracketed host.  (_checknetloc raises for no character of the model.)
netloc(url) ==
    LET u == AfterScheme(CleanUrl(url))
    IN IF Len(u) >= 2 /\ u[1] = "/" /\ u[2] = "/"
       THEN LET ds == {k \in 3..Len(u) : u[k] \in {"/", "?", "#"}}
                delim == IF ds = {} THEN Len(u) + 1 ELSE Min(ds)
                nl == SubSeq(u, 3, delim - 1)
                open == FindChar(nl, "[", 1)
                after == SubSeq(nl, open + 1, Len(nl))
                close == FindChar(after, "]", 1)
                bracketed_host == IF close = 0 THEN after ELSE SubSeq(after, 1, close - 1)
            IN IF Has(nl, "[") # Has(nl, "]")
               THEN [raised |-> TRUE, val |-> <<>>]
               ELSE IF Has(nl, "[") /\ ~IsBracketedHost(bracketed_host)
               THEN [raised |-> TRUE, val |-> <<>>]
               ELSE [raised |-> FALSE, val |-> nl]
       ELSE [raised |-> FALSE, val |-> <<>>]

\* os.path.basename(p): p[p.rfind('/') + 1:]
basename(p) ==
    LET ks == {k \in 1..Len(p) : p[k] = "/"}
        i == IF ks = {} THEN 0 ELSE Max(ks)
    IN SubSeq(p, i + 1, Len(p))

-----------------------------------------------------------------------------
(* The defaults of mistune.HTMLRenderer that the overrides delegate to     *)

P_OPEN == <<"<", "p", ">">>
P_CLOSE == <<"<", "/", "p", ">">>

\* mistune's escape: & < > " become entities.
EscapeChar(c) ==
    IF c = "&" THEN "&amp;"
    ELSE IF c = "<" THEN "&lt;"
    ELSE IF c = ">" THEN "&gt;"
    ELSE IF c = "\"" THEN "&quot;"
    ELSE c

HTMLRenderer_text(text) == [k \in 1..Len(text) |-> EscapeChar(text[k])]

HTMLRenderer_heading(text, level) ==
    <<"<h" \o ToString(level) \o ">">> \o text \o <<"</h" \o ToString(level) \o ">", "\n">>

HTMLRenderer_block_quote(text) ==
    <<"<blockquote>", "\n">> \o text \o <<"</blockquote>", "\n">>

HTMLRenderer_paragraph(text) == P_OPEN \o text \o P_CLOSE \o <<"\n">>

\* link(link, text, title): text falls back to the link, the title attribute
\* is written only when a title is given.
HTMLRenderer_link(link, text, title) ==
    LET t == IF text.some /\ text.val # <<>> THEN text.val ELSE link
        ttl == IF title.some /\ title.val # <<>>
               THEN <<" title=\"">> \o HTMLRenderer_text(title.val) \o <<"\"">>
               ELSE <<>>
    IN <<"<a href=\"">> \o HTMLRenderer_text(link) \o <<"\"">> \o ttl \o <<">">> \o t \o <<"</a>">>

-----------------------------------------------------------------------------
(* ConfluenceRenderer.  Each callback is an operator from the instance     *)
(* (self) and its arguments to the instance afterwards and the value       *)
(* returned.                                                               *)

ConfluenceRenderer(authors) ==
    [attachments |-> <<>>,
     authors |-> IF authors = NoneV THEN <<>> ELSE authors.val,
     has_toc |-> FALSE,
     top_heading |-> NoneV]

AUTHOR_A ==
    "<ac:structured-macro ac:name=\"profile-picture\" ac:schema-version=\"1\">\n                <ac:parameter ac:name=\"User\"><ri:user ri:userkey=\""
AUTHOR_B ==
    "\" /></ac:parameter>\n            </ac:structured-macro>&nbsp;\n            <ac:link><ri:user ri:userkey=\""
AUTHOR_C == "\" /></ac:link>"

\* author_template.format(user_key=user_key)
author_template(user_key) == <<AUTHOR_A, user_key, AUTHOR_B, user_key, AUTHOR_C>>

\* Mutant of render_authors: a line break after every author, not between.
render_authors_trailing_break(self) ==
    LET author_content ==
            Flatten([k \in 1..Len(self.authors) |->
                        author_template(self.authors[k]) \o <<"<br />">>])
    IN [raised |-> FALSE, self |-> self,
        ret |-> <<"<h1>Authors</h1>">> \o P_OPEN \o author_content \o P_CLOSE]

render_authors(self) ==
    LET author_content ==
            Join(<<"<br />">>,
                 [k \in 1..Len(self.authors) |-> author_template(self.authors[k])])
    IN [raised |-> FALSE, self |-> self,
        ret |-> <<"<h1>Authors</h1>">> \o P_OPEN \o author_content \o P_CLOSE]

TOC_A == "\n<h1>Table of Contents</h1>\n"
TOC_B ==
    "<ac:structured-macro ac:name=\"toc\" ac:schema-version=\"1\">\n    <ac:parameter ac:name=\"exclude\">^(Authors|Table of Contents)$</ac:parameter>\n</ac:structured-macro>"

COLUMN_A ==
    "\n<ac:structured-macro ac:name=\"column\" ac:schema-version=\"1\">\n    <ac:parameter ac:name=\"width\">"
COLUMN_B == "</ac:parameter>\n    <ac:rich-text-body>"
COLUMN_C == "</ac:rich-text-body>\n</ac:structured-macro>"

\* column.format(width=width, content=content)
column(width, content) == <<COLUMN_A, width, COLUMN_B>> \o content \o <<COLUMN_C>>

layout(self, content) ==
    LET toc == IF ~self.has_toc THEN <<>>
               ELSE <<TOC_A>> \o P_OPEN \o <<TOC_B>> \o P_CLOSE
        authors == render_authors(self).ret
        sidebar == column("30%", toc \o authors)
        main_content == column("800px", content)
    IN [raised |-> FALSE, self |-> self, ret |-> sidebar \o main_content]

\* Mutant of heading: `not self.top_heading` for `self.top_heading is None`.
heading_falsy(self, text, level) ==
    LET s1 == [self EXCEPT !.has_toc = TRUE]
    IN IF (s1.top_heading = NoneV \/ s1.top_heading = Some(<<>>)) /\ level = 1
       THEN [raised |-> FALSE, self |-> [s1 EXCEPT !.top_heading = Some(text)], ret |-> <<>>]
       ELSE [raised |-> FALSE, self |-> s1, ret |-> HTMLRenderer_heading(text, level)]

\* Mutant of heading: has_toc is set only for a heading that is rendered.
heading_toc_when_rendered(self, text, level) ==
    IF self.top_heading = NoneV /\ level = 1
    THEN [raised |-> FALSE, self |-> [self EXCEPT !.top_heading = Some(text)], ret |-> <<>>]
    ELSE [raised |-> FALSE, self |-> [self EXCEPT !.has_toc = TRUE],
          ret |-> HTMLRenderer_heading(text, level)]

\* Mutant of heading: every level-1 heading is dropped, the first is kept as
\* the top heading.
heading_drops_every_h1(self, text, level) ==
    LET s1 == [self EXCEPT !.has_toc = TRUE]
    IN IF level = 1
       THEN [raised |-> FALSE, self |-> IF s1.top_heading = NoneV
                      THEN [s1 EXCEPT !.top_heading = Some(text)] ELSE s1,
             ret |-> <<>>]
       ELSE [raised |-> FALSE, self |-> s1, ret |-> HTMLRenderer_heading(text, level)]

heading(self, text, level) ==
    LET s1 == [self EXCEPT !.has_toc = TRUE]
    IN IF s1.top_heading = NoneV /\ level = 1
       THEN [raised |-> FALSE, self |-> [s1 EXCEPT !.top_heading = Some(text)], ret |-> <<>>]
       ELSE [raised |-> FALSE, self |-> s1, ret |-> HTMLRenderer_heading(text, level)]

block_quote(self, content) ==
    LET stripped ==
            IF Count(content, P_CLOSE) = 1
            THEN Replace(Replace(content, P_OPEN, <<>>), P_CLOSE, <<>>)
            ELSE content
    IN [raised |-> FALSE, self |-> self, ret |-> HTMLRenderer_block_quote(stripped)]

\* A callback returns the instance afterwards and its value; raised tells
\* that it raised instead (urlparse's ValueError), the instance as it was.

\* Mutant of image: the append is not under `if not is_external`.
image_appends_always(self, src, title, alt_text) ==
    LET is_external == netloc(src).val # <<>>
        s1 == [self EXCEPT !.attachments = Append(@, src)]
    IN IF netloc(src).raised
       THEN [raised |-> TRUE, self |-> self, ret |-> <<>>]
       ELSE IF ~is_external
       THEN [raised |-> FALSE, self |-> s1,
             ret |-> <<"<ac:image>", "<ri:attachment ri:filename=\"">>
                       \o basename(src) \o <<"\" />", "</ac:image>">>]
       ELSE [raised |-> FALSE, self |-> s1,
             ret |-> <<"<ac:image>", "<ri:url ri:value=\"">>
                       \o src \o <<"\" />", "</ac:image>">>]

image(self, src, title, alt_text) ==
    LET is_external == netloc(src).val # <<>>
    IN IF netloc(src).raised
       THEN [raised |-> TRUE, self |-> self, ret |-> <<>>]
       ELSE IF ~is_external
       THEN [raised |-> FALSE, self |-> [self EXCEPT !.attachments = Append(@, src)],
             ret |-> <<"<ac:image>", "<ri:attachment ri:filename=\"">>
                       \o basename(src) \o <<"\" />", "</ac:image>">>]
       ELSE [raised |-> FALSE, self |-> self,
             ret |-> <<"<ac:image>", "<ri:url ri:value=\"">>
                       \o src \o <<"\" />", "</ac:image>">>]

\* title and content are passed on positionally; content is a str here
\* (Some), as HTMLRenderer.text needs one.
link(self, link_, title, content) ==
    LET is_external == netloc(link_).val # <<>>
    IN IF netloc(link_).raised
       THEN [raised |-> TRUE, self |-> self, ret |-> <<>>]
       ELSE IF is_external
       THEN [raised |-> FALSE, self |-> self, ret |-> HTMLRenderer_link(link_, title, content)]
       ELSE [raised |-> FALSE, self |-> self, ret |-> HTMLRenderer_text(content.val)]

-----------------------------------------------------------------------------
(* block_mermaid: base64 of the JSON text of the diagram source            *)

B64Alphabet ==
    <<"A", "B", "C", "D", "E", "F", "G", "H", "I", "J", "K", "L", "M", "N", "O", "P",
      "Q", "R", "S", "T", "U", "V", "W", "X", "Y", "Z", "a", "b", "c", "d", "e", "f",
      "g", "h", "i", "j", "k", "l", "m", "n", "o", "p", "q", "r", "s", "t", "u", "v",
      "w", "x", "y", "z", "0", "1", "2", "3", "4", "5", "6", "7", "8", "9", "+", "/">>

\* base64.b64encode over a sequence of bytes: 3 bytes to 4 characters, = padding.
b64encode(bs) ==
    LET n == Len(bs)
        group(g) ==
            LET k == 3 * g - 2
                b2 == IF k + 1 <= n THEN bs[k + 1] ELSE 0
                b3 == IF k + 2 <= n THEN bs[k + 2] ELSE 0
                v == bs[k] * 65536 + b2 * 256 + b3
            IN <<B64Alphabet[(v \div 262144) + 1],
                 B64Alphabet[((v \div 4096) % 64) + 1],
                 IF k + 1 <= n THEN B64Alphabet[((v \div 64) % 64) + 1] ELSE "=",
                 IF k + 2 <= n THEN B64Alphabet[(v % 64) + 1] ELSE "=">>
    IN Flatten([g \in 1..((n + 2) \div 3) |-> group(g)])

HexChars == <<"0", "1", "2", "3", "4", "5", "6", "7", "8", "9", "a", "b", "c", "d", "e", "f">>

\* '\\u{0:04x}'.format(n)
UEscape(n) ==
    <<"\\", "u", HexChars[(n \div 4096) + 1], HexChars[((n \div 256) % 16) + 1],
      HexChars[((n \div 16) % 16) + 1], HexChars[(n % 16) + 1]>>

\* json.encoder's ESCAPE_ASCII for one character: the short escapes, and
\* \uXXXX for every other character outside space..~.
JsonEscape(c) ==
    IF c = "\"" THEN <<"\\", "\"">>
    ELSE IF c = "\\" THEN <<"\\", "\\">>
    ELSE IF c = "\n" THEN <<"\\", "n">>
    ELSE IF c = "\r" THEN <<"\\", "r">>
    ELSE IF c = "\t" THEN <<"\\", "t">>
    ELSE IF c = "\f" THEN <<"\\", "f">>
    ELSE IF c = "(0x08)" THEN <<"\\", "b">>
    ELSE IF Ord(c) >= 32 /\ Ord(c) <= 126 THEN <<c>>
    ELSE UEscape(Ord(c))

\* The body of a JSON string literal as json.dumps writes it.
json_string(s) == Flatten([k \in 1..Len(s) |-> JsonEscape(s[k])])

\* json.dumps({"code": code, "mermaid": {"theme": "default"}})
json_dumps(code) ==
    <<"{", "\"", "c", "o", "d", "e", "\"", ":", " ", "\"">>
    \o json_string(code)
    \o <<"\"", ",", " ", "\"", "m", "e", "r", "m", "a", "i", "d", "\"", ":", " ", "{",
         "\"", "t", "h", "e", "m", "e", "\"", ":", " ", "\"", "d", "e", "f", "a", "u",
         "l", "t", "\"", "}", "}">>

block_mermaid(self, code) ==
    LET js == json_dumps(code)
        data == b64encode([k \in 1..Len(js) |-> Ord(js[k])])
        src == <<"h", "t", "t", "p", "s", ":", "/", "/", "m", "e", "r", "m", "a", "i",
                 "d", ".", "i", "n", "k", "/", "i", "m", "g", "/">> \o data
    IN [raised |-> FALSE, self |-> self,
        ret |-> <<"<ac:image>", "<ri:url ri:value=\"">> \o src \o <<"\" />", "</ac:image>">>]

MERMAID == <<"m", "e", "r", "m", "a", "i", "d">>

CODE_A ==
    "<ac:structured-macro ac:name=\"code\" ac:schema-version=\"1\">\n    <ac:parameter ac:name=\"language\">"
CODE_B == "</ac:parameter>\n    <ac:plain-text-body><![CDATA["
CODE_C == "]]></ac:plain-text-body>\n</ac:structured-macro>\n"

\* lang is None or a str; `lang or ''` is the str unless it is None or empty.
block_code(self, code, lang) ==
    IF lang = Some(MERMAID)
    THEN block_mermaid(self, code)
    ELSE [raised |-> FALSE, self |-> self,
          ret |-> <<CODE_A>> \o lang.val \o <<CODE_B>> \o code \o <<CODE_C>>]

-----------------------------------------------------------------------------
(* convtoconf                                                              *)

\* A dict is a set of <<key, value>> pairs with distinct keys.
DictGet(d, key, default) ==
    IF \E e \in d : e[1] = key
    THEN (CHOOSE e \in d : e[1] = key)[2]
    ELSE default

\* `if front_matter is None: front_matter = {}`
FrontMatterDict(fm) == IF ~fm.some THEN {} ELSE fm.val

\* front_matter.get('author_keys', [])
author_keys(fm) == DictGet(FrontMatterDict(fm), "author_keys", Some(<<>>))

\* Mutant of title: the detected heading wins over the front matter's title.
title_heading_first(fm, self) ==
    IF self.top_heading.some THEN self.top_heading
    ELSE DictGet(FrontMatterDict(fm), "title", NoneV)

\* front_matter.get('title', renderer.top_heading)
title(fm, self) == DictGet(FrontMatterDict(fm), "title", self.top_heading)

\* What the engine adds to the page for one callback's output: a block
\* callback's output as it is, an inline one's inside the default paragraph.
Emit(op, ret) ==
    IF op \in {"image", "link"} THEN HTMLRenderer_paragraph(ret) ELSE ret

-----------------------------------------------------------------------------
(* parse                                                                   *)

YAML_BOUNDARY == <<"-", "-", "-">>

\* open(post_path, 'r') reads in text mode with newline=None: "\r\n" and a
\* lone "\r" both reach the program as "\n" (the "\n" after a "\r" is
\* dropped, every "\r" left becomes "\n").
universal_newlines(s) ==
    LET kept == SelectSeq([k \in 1..Len(s) |-> k],
                          LAMBDA k : ~(s[k] = "\n" /\ k > 1 /\ s[k - 1] = "\r"))
    IN [j \in 1..Len(kept) |-> IF s[kept[j]] = "\r" THEN "\n" ELSE s[kept[j]]]

\* The lines of a text, each with its line feed; the last may have none.
splitlines(s) ==
    LET ends == {k \in 1..Len(s) : s[k] = "\n" \/ k = Len(s)}
        start(e) == Max({0} \cup {k \in ends : k < e}) + 1
        n == Cardinality(ends)
        nth(j) == CHOOSE e \in ends : Cardinality({k \in ends : k <= e}) = j
    IN [j \in 1..n |-> SubSeq(s, start(nth(j)), nth(j))]

\* post.readlines() on the file opened at line 23; s is the file's text.
readlines(s) == splitlines(universal_newlines(s))

\* Mutant of IsEndingTag: the `and raw_yaml` guard of line 27 is missing.
IsEndingTag_unguarded(line, inyaml, rawyaml) ==
    Strip(line) = YAML_BOUNDARY /\ inyaml

\* Lines 26-29: the line is the ending tag, and is dropped.
IsEndingTag(line, inyaml, rawyaml) ==
    Strip(line) = YAML_BOUNDARY /\ inyaml /\ rawyaml # <<>>

\* Mutant of parse_line: the `continue` of line 29 is missing, so the ending
\* tag falls through into the body.
parse_line_keeps_tag(loc, line) ==
    IF IsEndingTag(line, loc.in_yaml, loc.raw_yaml)
    THEN [loc EXCEPT !.in_yaml = FALSE, !.markdown = @ \o line]
    ELSE IF loc.in_yaml
    THEN [loc EXCEPT !.raw_yaml = @ \o line]
    ELSE [loc EXCEPT !.markdown = @ \o line]

\* One pass of the loop body, lines 24-33, over the locals.
parse_line(loc, line) ==
    IF IsEndingTag(line, loc.in_yaml, loc.raw_yaml)
    THEN [loc EXCEPT !.in_yaml = FALSE]
    ELSE IF loc.in_yaml
    THEN [loc EXCEPT !.raw_yaml = @ \o line]
    ELSE [loc EXCEPT !.markdown = @ \o line]

(* yaml.load(raw_yaml, Loader=yaml.SafeLoader).  PyYAML is run as it is    *)
(* written: the reader's check of the characters, the scanner (text to     *)
(* tokens), the parser and composer (tokens to nodes), the resolver (the   *)
(* tag of a plain scalar) and the safe constructor (nodes to Python        *)
(* values).  An operator of the scanner takes the scanner's state and      *)
(* returns the state afterwards; st is "ok", "raises" once an exception    *)
(* was raised, or "unmodelled" once the text uses what is not modelled     *)
(* (an explicit tag, a %TAG directive, a character outside the alphabet    *)
(* of this module).  The scanner is run to the end of the text before the  *)
(* parser starts; PyYAML interleaves them, which changes nothing since an  *)
(* exception of either is the exception of yaml.load.                      *)

BR == {"\r", "\n", NEL, LS, PS}
BR0 == BR \cup {NUL}
WS0 == BR0 \cup {" ", "\t"}
WS0_NOTAB == BR0 \cup {" "}
SPBR == BR \cup {" "}
BLANK == {" ", "\t"}
NameChars == Digits \cup Alpha \cup {"-", "_"}
FlowIndicators == {",", "[", "]", "{", "}"}

\* Reader.check_printable accepts the character.
IsPrintable(c) ==
    LET n == Ord(c)
    IN \/ n \in {9, 10, 13, 133}
       \/ n \in 32..126
       \/ (n >= 160 /\ n <= 55295)
       \/ (n >= 57344 /\ n <= 65533)

\* text[:n]
Take(t, n) == SubSeq(t, 1, Min({n, Len(t)}))

Tok(id, val, plain) == [id |-> id, val |-> val, plain |-> plain]

\* Scanner.__init__ over Reader's buffer, the text and the end mark.  out,
\* num and tok hold what the scan_ method last run returned.
Scanner(text) ==
    [buf |-> text \o <<NUL>>, p |-> 1, line |-> 0, col |-> 0,
     done |-> FALSE, flow |-> 0, toks |-> <<>>, indent |-> -1, indents |-> <<>>,
     ask |-> TRUE, keys |-> {},
     st |-> IF \A k \in 1..Len(text) : IsPrintable(text[k]) THEN "ok" ELSE "raises",
     out |-> <<>>, num |-> 0, tok |-> Tok("", <<>>, FALSE)]

Fail(s) == [s EXCEPT !.st = "raises"]
NotModelled(s) == [s EXCEPT !.st = "unmodelled"]

\* The rest of a method after a step that may have raised.
Then(s, rest(_)) == IF s.st # "ok" THEN s ELSE rest(s)

\* Reader.peek, prefix, forward
peek(s, k) == IF s.p + k <= Len(s.buf) THEN s.buf[s.p + k] ELSE NUL

prefix(s, n) == SubSeq(s.buf, s.p, Min({s.p + n - 1, Len(s.buf)}))

IsBreakAt(buf, k) ==
    buf[k] \in {"\n", NEL, LS, PS} \/ (buf[k] = "\r" /\ buf[k + 1] # "\n")

forward(s, n) ==
    LET brs == {k \in s.p..(s.p + n - 1) : IsBreakAt(s.buf, k)}
    IN [s EXCEPT !.p = @ + n,
                 !.line = @ + Cardinality(brs),
                 !.col = IF brs = {} THEN @ + n ELSE s.p + n - 1 - Max(brs)]

\* `while self.peek(length) in S: length += 1`, from offset k0
Run(s, k0, S) ==
    Min({k \in (s.p + k0)..(Len(s.buf) + 1) : k > Len(s.buf) \/ s.buf[k] \notin S})
        - (s.p + k0)

\* `while self.peek(length) not in S: length += 1`, for S holding the end mark
Until(s, k0, S) == Min({k \in (s.p + k0)..Len(s.buf) : s.buf[k] \in S}) - (s.p + k0)

\* `while self.column < indent and self.peek() == ' ': self.forward()`
forward_indent(s, ind) ==
    IF s.col >= ind THEN s ELSE forward(s, Min({Run(s, 0, {" "}), ind - s.col}))

scan_line_break(s) ==
    LET ch == peek(s, 0)
    IN IF ch \in {"\r", "\n", NEL}
       THEN [(IF prefix(s, 2) = <<"\r", "\n">> THEN forward(s, 2) ELSE forward(s, 1))
                EXCEPT !.out = <<"\n">>]
       ELSE IF ch \in {LS, PS} THEN [forward(s, 1) EXCEPT !.out = <<ch>>]
       ELSE [s EXCEPT !.out = <<>>]

\* The comment at the pointer, if any, is passed over.
skip_comment(s) == IF peek(s, 0) = "#" THEN forward(s, Until(s, 0, BR0)) ELSE s

RECURSIVE scan_to_next_token(_)
scan_to_next_token(s) ==
    LET s1 == scan_line_break(skip_comment(forward(s, Run(s, 0, {" "}))))
    IN IF s1.out # <<>>
       THEN scan_to_next_token(IF s1.flow = 0 THEN [s1 EXCEPT !.ask = TRUE] ELSE s1)
       ELSE s1

\* `prefix == '---' or prefix == '...'` followed by a blank, a break or the end
IsDocumentSeparator(s) ==
    /\ prefix(s, 3) \in {<<"-", "-", "-">>, <<".", ".", ".">>}
    /\ peek(s, 3) \in WS0

(* Simple keys *)

stale_possible_simple_keys(s) ==
    LET stale == {key \in s.keys : key.line # s.line \/ s.p - key.index > 1024}
    IN IF \E key \in stale : key.required THEN Fail(s)
       ELSE [s EXCEPT !.keys = @ \ stale]

remove_possible_simple_key(s) ==
    LET here == {key \in s.keys : key.level = s.flow}
    IN IF \E key \in here : key.required THEN Fail(s)
       ELSE [s EXCEPT !.keys = @ \ here]

save_possible_simple_key(s) ==
    LET required == s.flow = 0 /\ s.indent = s.col
    IN IF s.ask
       THEN Then(remove_possible_simple_key(s),
                 LAMBDA t : [t EXCEPT !.keys = @ \cup
                                {[level |-> t.flow, token_number |-> Len(t.toks),
                                  required |-> required, index |-> t.p,
                                  line |-> t.line, col |-> t.col]}])
       ELSE s

(* Indentation *)

RECURSIVE unwind_indent(_, _)
unwind_indent(s, col) ==
    IF s.flow # 0 \/ s.indent <= col THEN s
    ELSE unwind_indent([s EXCEPT !.indent = s.indents[Len(s.indents)],
                                 !.indents = SubSeq(@, 1, Len(@) - 1),
                                 !.toks = Append(@, Tok("BLOCKEND", <<>>, FALSE))],
                       col)

\* add_indent(column), and the token of the collection it opens placed at
\* position at (counted from 0) of the tokens.
add_indent(s, col, id, at) ==
    IF s.indent < col
    THEN [s EXCEPT !.indents = Append(@, s.indent),
                   !.indent = col,
                   !.toks = SubSeq(@, 1, at) \o <<Tok(id, <<>>, FALSE)>>
                               \o SubSeq(@, at + 1, Len(@))]
    ELSE s

add_token(s, id) == [s EXCEPT !.toks = Append(@, Tok(id, <<>>, FALSE))]

(* Scanners *)

\* scan_directive_ignored_line and scan_block_scalar_ignored_line
scan_ignored_line(s) ==
    LET s1 == skip_comment(forward(s, Run(s, 0, {" "})))
    IN IF peek(s1, 0) \notin BR0 THEN Fail(s1) ELSE scan_line_break(s1)

\* scan_yaml_directive_number; out is the number without leading zeros.
scan_yaml_directive_number(s) ==
    LET length == Run(s, 0, Digits)
    IN IF length = 0 THEN Fail(s)
       ELSE [forward(s, length) EXCEPT !.out = LStrip(prefix(s, length), {"0"})]

\* scan_yaml_directive_value; out is the major version.
scan_yaml_directive_value(s) ==
    Then(scan_yaml_directive_number(forward(s, Run(s, 0, {" "}))),
         LAMBDA s1 :
            IF peek(s1, 0) # "." THEN Fail(s1)
            ELSE Then(scan_yaml_directive_number(forward(s1, 1)),
                      LAMBDA s2 :
                         IF peek(s2, 0) \notin WS0_NOTAB THEN Fail(s2)
                         ELSE [s2 EXCEPT !.out = s1.out]))

\* scan_directive; the token's value is the name, and for %YAML the major
\* version after it.
scan_directive(s) ==
    LET s1 == forward(s, 1)
        length == Run(s1, 0, NameChars)
        name == prefix(s1, length)
        s2 == forward(s1, length)
    IN IF length = 0 \/ peek(s2, 0) \notin WS0_NOTAB THEN Fail(s2)
       ELSE IF name = <<"Y", "A", "M", "L">>
       THEN Then(scan_yaml_directive_value(s2),
                 LAMBDA s3 :
                    Then(scan_ignored_line(s3),
                         LAMBDA s4 :
                            [s4 EXCEPT !.tok = Tok("DIRECTIVE", <<name, s3.out>>, FALSE)]))
       ELSE IF name = <<"T", "A", "G">> THEN NotModelled(s2)
       ELSE Then(scan_ignored_line(forward(s2, Until(s2, 0, BR0))),
                 LAMBDA s4 : [s4 EXCEPT !.tok = Tok("DIRECTIVE", <<name, <<>>>>, FALSE)])

scan_anchor(s, id) ==
    LET s1 == forward(s, 1)
        length == Run(s1, 0, NameChars)
        s2 == forward(s1, length)
    IN IF length = 0 THEN Fail(s1)
       ELSE IF peek(s2, 0) \notin WS0 \cup {"?", ":", ",", "]", "}", "%", "@", "(grave)"}
       THEN Fail(s2)
       ELSE [s2 EXCEPT !.tok = Tok(id, prefix(s1, length), FALSE)]

\* scan_block_scalar_indicators; out is <<chomping, increment>>, chomping
\* "keep" (True), "strip" (False) or "clip" (None), increment 0 for None.
scan_block_scalar_indicators(s) ==
    LET ch == peek(s, 0)
        Chomping(c) == IF c = "+" THEN "keep" ELSE "strip"
        Increment(c) == Ord(c) - 48
        s1 == forward(s, 1)
        ch1 == peek(s1, 0)
        r == IF ch \in {"+", "-"}
             THEN IF ch1 \in Digits
                  THEN [s |-> forward(s1, 1), chomping |-> Chomping(ch),
                        increment |-> Increment(ch1), zero |-> ch1 = "0"]
                  ELSE [s |-> s1, chomping |-> Chomping(ch), increment |-> 0, zero |-> FALSE]
             ELSE IF ch \in Digits
             THEN IF ch1 \in {"+", "-"} /\ ch # "0"
                  THEN [s |-> forward(s1, 1), chomping |-> Chomping(ch1),
                        increment |-> Increment(ch), zero |-> FALSE]
                  ELSE [s |-> s1, chomping |-> "clip", increment |-> Increment(ch),
                        zero |-> ch = "0"]
             ELSE [s |-> s, chomping |-> "clip", increment |-> 0, zero |-> FALSE]
    IN IF r.zero THEN Fail(r.s)
       ELSE IF peek(r.s, 0) \notin WS0_NOTAB THEN Fail(r.s)
       ELSE [r.s EXCEPT !.out = <<r.chomping, r.increment>>]

RECURSIVE scan_block_scalar_indentation(_, _, _)
\* out is the line breaks passed over, num the greatest column reached.
scan_block_scalar_indentation(s, chunks, max_indent) ==
    IF peek(s, 0) \notin SPBR THEN [s EXCEPT !.out = chunks, !.num = max_indent]
    ELSE IF peek(s, 0) # " "
    THEN LET s1 == scan_line_break(s)
         IN scan_block_scalar_indentation(s1, chunks \o s1.out, max_indent)
    ELSE LET s1 == forward(s, 1)
         IN scan_block_scalar_indentation(
                s1, chunks, IF s1.col > max_indent THEN s1.col ELSE max_indent)

RECURSIVE scan_block_scalar_breaks_loop(_, _, _)
scan_block_scalar_breaks_loop(s, ind, chunks) ==
    IF peek(s, 0) \notin BR THEN [s EXCEPT !.out = chunks]
    ELSE LET s1 == scan_line_break(s)
         IN scan_block_scalar_breaks_loop(forward_indent(s1, ind), ind, chunks \o s1.out)

scan_block_scalar_breaks(s, ind) ==
    scan_block_scalar_breaks_loop(forward_indent(s, ind), ind, <<>>)

RECURSIVE scan_block_scalar_lines(_, _, _, _, _, _, _)
\* The loop over the lines of a block scalar and the chomping of its tail.
scan_block_scalar_lines(s, chunks, breaks, line_break, ind, folded, chomping) ==
    IF s.col = ind /\ peek(s, 0) # NUL
    THEN LET leading_non_space == peek(s, 0) \notin BLANK
             length == Until(s, 0, BR0)
             s1 == scan_line_break(forward(s, length))
             s2 == scan_block_scalar_breaks(s1, ind)
             chunks1 == chunks \o breaks \o prefix(s, length)
             chunks2 ==
                 IF /\ folded
                    /\ s1.out = <<"\n">>
                    /\ leading_non_space
                    /\ peek(s2, 0) \notin BLANK
                 THEN (IF s2.out = <<>> THEN chunks1 \o <<" ">> ELSE chunks1)
                 ELSE chunks1 \o s1.out
         IN IF s2.col = ind /\ peek(s2, 0) # NUL
            THEN scan_block_scalar_lines(s2, chunks2, s2.out, s1.out, ind, folded, chomping)
            ELSE [s2 EXCEPT !.out = chunks1
                                \o (IF chomping # "strip" THEN s1.out ELSE <<>>)
                                \o (IF chomping = "keep" THEN s2.out ELSE <<>>)]
    ELSE [s EXCEPT !.out = chunks
                      \o (IF chomping # "strip" THEN line_break ELSE <<>>)
                      \o (IF chomping = "keep" THEN breaks ELSE <<>>)]

scan_block_scalar(s, style) ==
    Then(scan_block_scalar_indicators(forward(s, 1)),
         LAMBDA s1 :
            Then(scan_ignored_line(s1),
                 LAMBDA s2 :
                    LET chomping == s1.out[1]
                        increment == s1.out[2]
                        min_indent == IF s2.indent + 1 < 1 THEN 1 ELSE s2.indent + 1
                        s3 == IF increment = 0
                              THEN scan_block_scalar_indentation(s2, <<>>, 0)
                              ELSE scan_block_scalar_breaks(s2, min_indent + increment - 1)
                        ind == IF increment = 0
                               THEN Max({min_indent, s3.num})
                               ELSE min_indent + increment - 1
                        s4 == scan_block_scalar_lines(s3, <<>>, s3.out, <<>>, ind,
                                                      style = ">", chomping)
                    IN [s4 EXCEPT !.tok = Tok("SCALAR", s4.out, FALSE)]))

\* ESCAPE_REPLACEMENTS
EscapeReplacements ==
    {<<"0", NUL>>, <<"a", "(0x07)">>, <<"b", "(0x08)">>, <<"t", "\t">>, <<"\t", "\t">>,
     <<"n", "\n">>, <<"v", "(0x0b)">>, <<"f", "\f">>, <<"r", "\r">>, <<"e", "(0x1b)">>,
     <<" ", " ">>, <<"\"", "\"">>, <<"\\", "\\">>, <<"/", "/">>, <<"N", NEL>>,
     <<"_", NBSP>>, <<"L", LS>>, <<"P", PS>>}

\* ESCAPE_CODES
EscapeCodes == {<<"x", 2>>, <<"u", 4>>, <<"U", 8>>}

RECURSIVE HexNumber(_)
\* int(text, 16), for a text of at most six digits
HexNumber(text) ==
    IF text = <<>> THEN 0
    ELSE HexNumber(SubSeq(text, 1, Len(text) - 1)) * 16 + HexVal(text[Len(text)])

RECURSIVE scan_flow_scalar_breaks(_, _)
scan_flow_scalar_breaks(s, chunks) ==
    IF IsDocumentSeparator(s) THEN Fail(s)
    ELSE LET s1 == forward(s, Run(s, 0, BLANK))
         IN IF peek(s1, 0) \in BR
            THEN LET s2 == scan_line_break(s1)
                 IN scan_flow_scalar_breaks(s2, chunks \o s2.out)
            ELSE [s1 EXCEPT !.out = chunks]

\* The escape sequence after a backslash in a double-quoted scalar; out is
\* what it stands for.
scan_escape(s) ==
    LET ch == peek(s, 0)
    IN IF \E e \in EscapeReplacements : e[1] = ch
       THEN [forward(s, 1) EXCEPT
                !.out = <<(CHOOSE e \in EscapeReplacements : e[1] = ch)[2]>>]
       ELSE IF \E e \in EscapeCodes : e[1] = ch
       THEN LET length == (CHOOSE e \in EscapeCodes : e[1] = ch)[2]
                s1 == forward(s, 1)
                digits == prefix(s1, length)
                high == SubSeq(digits, 1, length - 6)
                code == HexNumber(SubSeq(digits, Max({1, length - 5}), length))
            IN IF \E k \in 0..(length - 1) : peek(s1, k) \notin HexDigits THEN Fail(s1)
               ELSE IF (\E k \in 1..Len(high) : high[k] # "0") \/ code > 1114111
               THEN Fail(s1)
               ELSE IF ~HasChr(code) THEN NotModelled(s1)
               ELSE [forward(s1, length) EXCEPT !.out = <<Chr(code)>>]
       ELSE IF ch \in BR
       THEN scan_flow_scalar_breaks(scan_line_break(s), <<>>)
       ELSE Fail(s)

RECURSIVE scan_flow_scalar_non_spaces(_, _, _)
scan_flow_scalar_non_spaces(s, double, chunks) ==
    LET length == Until(s, 0, WS0 \cup {"'", "\"", "\\"})
        s1 == forward(s, length)
        chunks1 == chunks \o prefix(s, length)
        ch == peek(s1, 0)
    IN IF ~double /\ ch = "'" /\ peek(s1, 1) = "'"
       THEN scan_flow_scalar_non_spaces(forward(s1, 2), double, chunks1 \o <<"'">>)
       ELSE IF (double /\ ch = "'") \/ (~double /\ ch \in {"\"", "\\"})
       THEN scan_flow_scalar_non_spaces(forward(s1, 1), double, chunks1 \o <<ch>>)
       ELSE IF double /\ ch = "\\"
       THEN Then(scan_escape(forward(s1, 1)),
                 LAMBDA s2 : scan_flow_scalar_non_spaces(s2, double, chunks1 \o s2.out))
       ELSE [s1 EXCEPT !.out = chunks1]

scan_flow_scalar_spaces(s) ==
    LET length == Run(s, 0, BLANK)
        whitespaces == prefix(s, length)
        s1 == forward(s, length)
        ch == peek(s1, 0)
    IN IF ch = NUL THEN Fail(s1)
       ELSE IF ch \in BR
       THEN LET s2 == scan_line_break(s1)
                line_break == s2.out
            IN Then(scan_flow_scalar_breaks(s2, <<>>),
                    LAMBDA s3 :
                       [s3 EXCEPT !.out =
                           (IF line_break # <<"\n">> THEN line_break
                            ELSE IF s3.out = <<>> THEN <<" ">>
                            ELSE <<>>) \o s3.out])
       ELSE [s1 EXCEPT !.out = whitespaces]

RECURSIVE scan_flow_scalar_loop(_, _, _, _)
scan_flow_scalar_loop(s, double, quote, chunks) ==
    IF peek(s, 0) = quote
    THEN [forward(s, 1) EXCEPT !.tok = Tok("SCALAR", chunks, FALSE)]
    ELSE Then(scan_flow_scalar_spaces(s),
              LAMBDA s1 :
                 Then(scan_flow_scalar_non_spaces(s1, double, chunks \o s1.out),
                      LAMBDA s2 : scan_flow_scalar_loop(s2, double, quote, s2.out)))

scan_flow_scalar(s, style) ==
    Then(scan_flow_scalar_non_spaces(forward(s, 1), style = "\"", <<>>),
         LAMBDA s1 : scan_flow_scalar_loop(s1, style = "\"", style, s1.out))

\* The test that ends a run of a plain scalar, at offset k
PlainStop(s, k) ==
    LET ch == peek(s, k)
    IN \/ ch \in WS0
       \/ /\ ch = ":"
          /\ peek(s, k + 1) \in WS0 \cup (IF s.flow # 0 THEN FlowIndicators ELSE {})
       \/ s.flow # 0 /\ ch \in FlowIndicators \cup {"?"}

RECURSIVE scan_plain_breaks(_, _)
\* The loop of scan_plain_spaces over the lines after the first break; out
\* is the breaks, num is 1 when a document separator ended it.
scan_plain_breaks(s, breaks) ==
    IF peek(s, 0) \notin SPBR THEN [s EXCEPT !.out = breaks, !.num = 0]
    ELSE IF peek(s, 0) = " " THEN scan_plain_breaks(forward(s, 1), breaks)
    ELSE LET s1 == scan_line_break(s)
         IN IF IsDocumentSeparator(s1) THEN [s1 EXCEPT !.out = <<>>, !.num = 1]
            ELSE scan_plain_breaks(s1, breaks \o s1.out)

\* out is the chunks returned, empty also where the method returns None.
scan_plain_spaces(s) ==
    LET length == Run(s, 0, {" "})
        whitespaces == prefix(s, length)
        s1 == forward(s, length)
    IN IF peek(s1, 0) \in BR
       THEN LET s2 == [scan_line_break(s1) EXCEPT !.ask = TRUE]
                line_break == s2.out
                s3 == scan_plain_breaks(s2, <<>>)
            IN IF IsDocumentSeparator(s2) THEN [s2 EXCEPT !.out = <<>>]
               ELSE IF s3.num = 1 THEN s3
               ELSE [s3 EXCEPT !.out =
                        (IF line_break # <<"\n">> THEN line_break
                         ELSE IF s3.out = <<>> THEN <<" ">>
                         ELSE <<>>) \o s3.out]
       ELSE [s1 EXCEPT !.out = whitespaces]

RECURSIVE scan_plain_loop(_, _, _, _)
scan_plain_loop(s, chunks, spaces, ind) ==
    LET length == Min({k \in 0..(Len(s.buf) - s.p) : PlainStop(s, k)})
    IN IF peek(s, 0) = "#" \/ length = 0
       THEN [s EXCEPT !.tok = Tok("SCALAR", chunks, TRUE)]
       ELSE LET chunks1 == chunks \o spaces \o prefix(s, length)
                s1 == scan_plain_spaces(forward([s EXCEPT !.ask = FALSE], length))
            IN IF s1.out = <<>> \/ peek(s1, 0) = "#" \/ (s1.flow = 0 /\ s1.col < ind)
               THEN [s1 EXCEPT !.tok = Tok("SCALAR", chunks1, TRUE)]
               ELSE scan_plain_loop(s1, chunks1, s1.out, ind)

scan_plain(s) == scan_plain_loop(s, <<>>, <<>>, s.indent + 1)

(* Fetchers *)

\* The token the scan_ method left in tok is added to the tokens.
add_scanned(s) == [s EXCEPT !.toks = Append(@, s.tok)]

fetch_stream_end(s) ==
    Then(remove_possible_simple_key(unwind_indent(s, -1)),
         LAMBDA s1 : [add_token(s1, "STREAMEND") EXCEPT
                         !.ask = FALSE, !.keys = {}, !.done = TRUE])

fetch_directive(s) ==
    Then(remove_possible_simple_key(unwind_indent(s, -1)),
         LAMBDA s1 : Then(scan_directive([s1 EXCEPT !.ask = FALSE]), add_scanned))

fetch_document_indicator(s, id) ==
    Then(remove_possible_simple_key(unwind_indent(s, -1)),
         LAMBDA s1 : add_token(forward([s1 EXCEPT !.ask = FALSE], 3), id))

fetch_flow_collection_start(s, id) ==
    Then(save_possible_simple_key(s),
         LAMBDA s1 : add_token(forward([s1 EXCEPT !.flow = @ + 1, !.ask = TRUE], 1), id))

fetch_flow_collection_end(s, id) ==
    Then(remove_possible_simple_key(s),
         LAMBDA s1 : add_token(forward([s1 EXCEPT !.flow = @ - 1, !.ask = FALSE], 1), id))

fetch_flow_entry(s) ==
    Then(remove_possible_simple_key([s EXCEPT !.ask = TRUE]),
         LAMBDA s1 : add_token(forward(s1, 1), ","))

fetch_block_entry(s) ==
    IF s.flow = 0 /\ ~s.ask THEN Fail(s)
    ELSE Then(remove_possible_simple_key(
                  [(IF s.flow = 0 THEN add_indent(s, s.col, "BLOCKSEQ", Len(s.toks)) ELSE s)
                      EXCEPT !.ask = TRUE]),
              LAMBDA s1 : add_token(forward(s1, 1), "ENTRY"))

fetch_key(s) ==
    IF s.flow = 0 /\ ~s.ask THEN Fail(s)
    ELSE Then(remove_possible_simple_key(
                  [(IF s.flow = 0 THEN add_indent(s, s.col, "BLOCKMAP", Len(s.toks)) ELSE s)
                      EXCEPT !.ask = (s.flow = 0)]),
              LAMBDA s1 : add_token(forward(s1, 1), "KEY"))

fetch_value(s) ==
    LET here == {e \in s.keys : e.level = s.flow}
        key == CHOOSE k \in here : TRUE
        with_key == [s EXCEPT !.keys = @ \ here,
                              !.toks = SubSeq(@, 1, key.token_number)
                                          \o <<Tok("KEY", <<>>, FALSE)>>
                                          \o SubSeq(@, key.token_number + 1, Len(@))]
        s1 == IF here # {}
              THEN [(IF s.flow = 0
                     THEN add_indent(with_key, key.col, "BLOCKMAP", key.token_number)
                     ELSE with_key)
                       EXCEPT !.ask = FALSE]
              ELSE IF s.flow = 0 /\ ~s.ask THEN Fail(s)
              ELSE remove_possible_simple_key(
                       [(IF s.flow = 0
                         THEN add_indent(s, s.col, "BLOCKMAP", Len(s.toks))
                         ELSE s)
                           EXCEPT !.ask = (s.flow = 0)])
    IN Then(s1, LAMBDA s2 : add_token(forward(s2, 1), "VALUE"))

fetch_alias(s) ==
    Then(save_possible_simple_key(s),
         LAMBDA s1 : Then(scan_anchor([s1 EXCEPT !.ask = FALSE], "ALIAS"), add_scanned))

fetch_anchor(s) ==
    Then(save_possible_simple_key(s),
         LAMBDA s1 : Then(scan_anchor([s1 EXCEPT !.ask = FALSE], "ANCHOR"), add_scanned))

fetch_block_scalar(s, style) ==
    Then(remove_possible_simple_key([s EXCEPT !.ask = TRUE]),
         LAMBDA s1 : Then(scan_block_scalar(s1, style), add_scanned))

fetch_flow_scalar(s, style) ==
    Then(save_possible_simple_key(s),
         LAMBDA s1 : Then(scan_flow_scalar([s1 EXCEPT !.ask = FALSE], style), add_scanned))

fetch_plain(s) ==
    Then(save_possible_simple_key(s),
         LAMBDA s1 : Then(scan_plain([s1 EXCEPT !.ask = FALSE]), add_scanned))

(* Checkers *)

check_directive(s) == s.col = 0

check_document_start(s) ==
    s.col = 0 /\ prefix(s, 3) = <<"-", "-", "-">> /\ peek(s, 3) \in WS0

check_document_end(s) ==
    s.col = 0 /\ prefix(s, 3) = <<".", ".", ".">> /\ peek(s, 3) \in WS0

check_block_entry(s) == peek(s, 1) \in WS0

check_key(s) == s.flow # 0 \/ peek(s, 1) \in WS0

check_value(s) == s.flow # 0 \/ peek(s, 1) \in WS0

check_plain(s) ==
    LET ch == peek(s, 0)
    IN \/ ch \notin WS0 \cup {"-", "?", ":", ",", "[", "]", "{", "}", "#", "&", "*", "!",
                              "|", ">", "'", "\"", "%", "@", "(grave)"}
       \/ /\ peek(s, 1) \notin WS0
          /\ (ch = "-" \/ (s.flow = 0 /\ ch \in {"?", ":"}))

fetch_more_tokens(s0) ==
    Then(stale_possible_simple_keys(scan_to_next_token(s0)),
         LAMBDA s1 :
            LET s == unwind_indent(s1, s1.col)
                ch == peek(s, 0)
            IN IF ch = NUL THEN fetch_stream_end(s)
               ELSE IF ch = "%" /\ check_directive(s) THEN fetch_directive(s)
               ELSE IF ch = "-" /\ check_document_start(s)
               THEN fetch_document_indicator(s, "DOCSTART")
               ELSE IF ch = "." /\ check_document_end(s)
               THEN fetch_document_indicator(s, "DOCEND")
               ELSE IF ch \in {"[", "{"} THEN fetch_flow_collection_start(s, ch)
               ELSE IF ch \in {"]", "}"} THEN fetch_flow_collection_end(s, ch)
               ELSE IF ch = "," THEN fetch_flow_entry(s)
               ELSE IF ch = "-" /\ check_block_entry(s) THEN fetch_block_entry(s)
               ELSE IF ch = "?" /\ check_key(s) THEN fetch_key(s)
               ELSE IF ch = ":" /\ check_value(s) THEN fetch_value(s)
               ELSE IF ch = "*" THEN fetch_alias(s)
               ELSE IF ch = "&" THEN fetch_anchor(s)
               ELSE IF ch = "!" THEN NotModelled(s)
               ELSE IF ch \in {"|", ">"} /\ s.flow = 0 THEN fetch_block_scalar(s, ch)
               ELSE IF ch \in {"'", "\""} THEN fetch_flow_scalar(s, ch)
               ELSE IF check_plain(s) THEN fetch_plain(s)
               ELSE Fail(s))

RECURSIVE scan(_)
\* The tokens of the whole text: fetch_more_tokens until the stream end.
scan(s) == IF s.st # "ok" \/ s.done THEN s ELSE scan(fetch_more_tokens(s))

(* Resolver: the tag of a plain scalar, by the implicit resolvers in the   *)
(* order SafeLoader registers them, each tried only on the first           *)
(* characters it is registered for.                                        *)

Chars(str) == [k \in 1..Len(str) |-> SubSeq(str, k, k)]
Words(strs) == {Chars(w) : w \in strs}

AllIn(t, S) == \A k \in 1..Len(t) : t[k] \in S

\* [-+]?
Unsigned(t) == IF t # <<>> /\ t[1] \in {"-", "+"} THEN Tail(t) ELSE t

\* [0-9][0-9_]*
IsDigitsUnderscores(t) == t # <<>> /\ t[1] \in Digits /\ AllIn(t, Digits \cup {"_"})

\* (?:[eE][-+][0-9]+)?
IsOptExponent(t) ==
    \/ t = <<>>
    \/ Len(t) >= 3 /\ t[1] \in {"e", "E"} /\ t[2] \in {"-", "+"} /\ AllIn(SubSeq(t, 3, Len(t)), Digits)

\* [0-5]?[0-9]
IsSexagesimalDigit(t) ==
    \/ Len(t) = 1 /\ t[1] \in Digits
    \/ Len(t) = 2 /\ t[1] \in {"0", "1", "2", "3", "4", "5"} /\ t[2] \in Digits

\* head(?::[0-5]?[0-9])+ with head accepted by IsHead
IsSexagesimal(t, IsHead(_)) ==
    LET parts == Split(t, ":")
    IN /\ Len(parts) >= 2
       /\ IsHead(parts[1])
       /\ \A k \in 2..Len(parts) : IsSexagesimalDigit(parts[k])

IsBoolText(t) ==
    t \in Words({"yes", "Yes", "YES", "no", "No", "NO", "true", "True", "TRUE",
                 "false", "False", "FALSE", "on", "On", "ON", "off", "Off", "OFF"})

\* The part of the float pattern before the exponent: digits, a dot and
\* digits or underscores.
IsFloatText(t) ==
    LET u == Unsigned(t)
        dot == FindChar(u, ".", 1)
        exps == {k \in 1..Len(u) : u[k] \in {"e", "E"}}
        e == IF exps = {} THEN Len(u) + 1 ELSE Min(exps)
        mantissa == SubSeq(u, 1, e - 1)
        mdot == FindChar(mantissa, ".", 1)
    IN \/ /\ mdot > 1
          /\ IsDigitsUnderscores(SubSeq(mantissa, 1, mdot - 1))
          /\ AllIn(SubSeq(mantissa, mdot + 1, Len(mantissa)), Digits \cup {"_"})
          /\ IsOptExponent(SubSeq(u, e, Len(u)))
       \/ /\ u = t
          /\ mdot = 1
          /\ IsDigitsUnderscores(SubSeq(mantissa, 2, Len(mantissa)))
          /\ IsOptExponent(SubSeq(u, e, Len(u)))
       \/ /\ dot > 0
          /\ IsSexagesimal(SubSeq(u, 1, dot - 1), IsDigitsUnderscores)
          /\ AllIn(SubSeq(u, dot + 1, Len(u)), Digits \cup {"_"})
       \/ u \in Words({".inf", ".Inf", ".INF"})
       \/ t \in Words({".nan", ".NaN", ".NAN"})

\* A text only releases of PyYAML before 5.4 resolve as a float (they take
\* \.[0-9_]+ for \.[0-9][0-9_]*): a dot, an underscore, digits or underscores.
IsOldFloatText(t) ==
    LET exps == {k \in 1..Len(t) : t[k] \in {"e", "E"}}
        e == IF exps = {} THEN Len(t) + 1 ELSE Min(exps)
    IN /\ Len(t) >= 2 /\ t[1] = "." /\ t[2] = "_"
       /\ AllIn(SubSeq(t, 2, e - 1), Digits \cup {"_"})
       /\ IsOptExponent(SubSeq(t, e, Len(t)))

IsDecimalHead(t) ==
    t # <<>> /\ t[1] \in Digits \ {"0"} /\ AllIn(t, Digits \cup {"_"})

IsIntText(t) ==
    LET u == Unsigned(t)
        rest == SubSeq(u, 3, Len(u))
    IN \/ /\ Take(u, 2) = <<"0", "b">>
          /\ rest # <<>> /\ AllIn(rest, {"0", "1", "_"})
       \/ /\ Len(u) >= 2 /\ u[1] = "0"
          /\ AllIn(Tail(u), {"0", "1", "2", "3", "4", "5", "6", "7", "_"})
       \/ u = <<"0">>
       \/ IsDecimalHead(u)
       \/ /\ Take(u, 2) = <<"0", "x">>
          /\ rest # <<>> /\ AllIn(rest, HexDigits \cup {"_"})
       \/ IsSexagesimal(u, IsDecimalHead)

IsNullText(t) == t \in Words({"~", "null", "Null", "NULL", ""})

IsDateText(t) ==
    /\ Len(t) = 10
    /\ t[5] = "-" /\ t[8] = "-"
    /\ \A k \in {1, 2, 3, 4, 6, 7, 9, 10} : t[k] \in Digits

OneOrTwoDigits(u) == Len(u) \in {1, 2} /\ AllIn(u, Digits)

\* [0-9][0-9](\.[0-9]*)? of the timestamp pattern, split at its dots
IsSecondText(second) ==
    /\ Len(second) \in {1, 2}
    /\ Len(second[1]) = 2 /\ AllIn(second[1], Digits)
    /\ (Len(second) = 2 => AllIn(second[2], Digits))

\* [0-9][0-9]?:[0-9][0-9]:[0-9][0-9](\.[0-9]*)?, split at its colons
IsClockText(clock) ==
    /\ Len(clock) = 3
    /\ OneOrTwoDigits(clock[1])
    /\ Len(clock[2]) = 2 /\ AllIn(clock[2], Digits)
    /\ IsSecondText(Split(clock[3], "."))

\* [0-9][0-9]?(:[0-9][0-9])?, split at its colons
IsOffsetText(offset) ==
    /\ Len(offset) \in {1, 2}
    /\ OneOrTwoDigits(offset[1])
    /\ (Len(offset) = 2 => Len(offset[2]) = 2 /\ AllIn(offset[2], Digits))

\* Z|[-+][0-9][0-9]?(:[0-9][0-9])?
IsZoneText(zone) ==
    \/ zone = <<"Z">>
    \/ zone # <<>> /\ zone[1] \in {"-", "+"} /\ IsOffsetText(Split(Tail(zone), ":"))

\* The time and the optional zone, from the character z of after
IsTimeText(after, z) ==
    /\ IsClockText(Split(SubSeq(after, 1, z - 1), ":"))
    /\ \/ z > Len(after)
       \/ IsZoneText(LStrip(SubSeq(after, z, Len(after)), BLANK))

\* The first character of after that no clock holds
ClockEnd(after) ==
    Min({k \in 1..Len(after) : after[k] \notin Digits \cup {":", "."}}
            \cup {Len(after) + 1})

\* After a "T" or "t" no blank may come before the time
IsTimeAfter(t, sep, after) ==
    /\ (t[sep] \in {"T", "t"} => after = SubSeq(t, sep + 1, Len(t)))
    /\ IsTimeText(after, ClockEnd(after))

\* The first [Tt] or blank after the second dash at d2, or 0
FirstSeparator(t, d2) ==
    LET seps == {k \in (d2 + 1)..Len(t) : t[k] \in {"T", "t", " ", "\t"}}
    IN IF seps = {} THEN 0 ELSE Min(seps)

\* The date with its dashes at d1 and d2 and the separator at sep, then
\* the time
IsDateTimeAt(t, d1, d2, sep) ==
    /\ d1 = 5 /\ AllIn(SubSeq(t, 1, 4), Digits)
    /\ d2 > 0 /\ OneOrTwoDigits(SubSeq(t, d1 + 1, d2 - 1))
    /\ sep > 0 /\ OneOrTwoDigits(SubSeq(t, d2 + 1, sep - 1))
    /\ IsTimeAfter(t, sep, LStrip(SubSeq(t, sep + 1, Len(t)), BLANK))

\* The second alternative of the timestamp pattern, a date with a time
IsDateTimeText(t) ==
    LET d1 == FindChar(t, "-", 1)
        d2 == FindChar(t, "-", d1 + 1)
    IN IsDateTimeAt(t, d1, d2, FirstSeparator(t, d2))

\* Resolver.resolve(ScalarNode, value, (plain, ...)): the last part of the
\* tag, "str" for what no implicit resolver takes, "unmodelled" where the
\* releases of PyYAML differ.
resolve(value, plain) ==
    LET c == IF value = <<>> THEN "" ELSE value[1]
    IN IF ~plain THEN "str"
       ELSE IF c \in {"y", "Y", "n", "N", "t", "T", "f", "F", "o", "O"} /\ IsBoolText(value)
       THEN "bool"
       ELSE IF c \in Digits \cup {"-", "+", "."} /\ IsFloatText(value) THEN "float"
       ELSE IF c = "." /\ IsOldFloatText(value) THEN "unmodelled"
       ELSE IF c \in Digits \cup {"-", "+"} /\ IsIntText(value) THEN "int"
       ELSE IF value = <<"<", "<">> THEN "merge"
       ELSE IF c \in {"~", "n", "N", ""} /\ IsNullText(value) THEN "null"
       ELSE IF c \in Digits /\ (IsDateText(value) \/ IsDateTimeText(value)) THEN "timestamp"
       ELSE IF value = <<"=">> THEN "value"
       ELSE "str"

(* Parser and composer: the tokens to the node of the single document.  A  *)
(* method takes the state (the tokens t, the index i of the next one, the  *)
(* anchors met) and returns it with the node it made in v.                 *)

Node(kind, tag, text, items) == [kind |-> kind, tag |-> tag, text |-> text, items |-> items]

\* What an anchor stands for while the node it names is being composed.
Pending == Node("pending", "", <<>>, <<>>)

\* process_empty_scalar and its node: a plain empty scalar
EmptyScalar == Node("scalar", resolve(<<>>, TRUE), <<>>, <<>>)

ScalarNode(token) == Node("scalar", resolve(token.val, token.plain), token.val, <<>>)

Parser(tokens) ==
    [t |-> tokens, i |-> 1, anchors |-> {}, st |-> "ok", v |-> Pending, num |-> 0,
     some |-> FALSE]

check_token(P, ids) == P.t[P.i].id \in ids

get_token(P) == [P EXCEPT !.i = @ + 1]

Returns(P, node) == [P EXCEPT !.v = node]

empty_scalar(P) == Returns(P, EmptyScalar)

RECURSIVE parse_node(_, _, _)
RECURSIVE parse_block_sequence(_, _)
RECURSIVE parse_indentless_sequence(_, _)
RECURSIVE parse_block_mapping(_, _)
RECURSIVE parse_flow_sequence(_, _)
RECURSIVE parse_flow_mapping(_, _)

parse_block_node(P) == parse_node(P, TRUE, FALSE)

parse_flow_node(P) == parse_node(P, FALSE, FALSE)

parse_block_node_or_indentless_sequence(P) == parse_node(P, TRUE, TRUE)

\* The node parse(P) makes, or the empty scalar when the next token is one
\* of ids.
NodeUnless(P, ids, parse(_)) == IF check_token(P, ids) THEN empty_scalar(P) ELSE parse(P)

\* "key: value" inside a flow collection, after the KEY token: v is the pair.
parse_flow_pair(P, closing) ==
    Then(NodeUnless(P, {"VALUE", ",", closing}, parse_flow_node),
         LAMBDA K :
            IF check_token(K, {"VALUE"})
            THEN Then(NodeUnless(get_token(K), {",", closing}, parse_flow_node),
                      LAMBDA V : Returns(V, <<K.v, V.v>>))
            ELSE Returns(K, <<K.v, EmptyScalar>>))

\* The entries of a block sequence after BLOCKSEQ, up to its BLOCKEND.
parse_block_sequence(P, items) ==
    IF check_token(P, {"ENTRY"})
    THEN Then(NodeUnless(get_token(P), {"ENTRY", "BLOCKEND"}, parse_block_node),
              LAMBDA Q : parse_block_sequence(Q, Append(items, Q.v)))
    ELSE IF ~check_token(P, {"BLOCKEND"}) THEN Fail(P)
    ELSE Returns(get_token(P), Node("seq", "seq", <<>>, items))

parse_indentless_sequence(P, items) ==
    IF check_token(P, {"ENTRY"})
    THEN Then(NodeUnless(get_token(P), {"ENTRY", "KEY", "VALUE", "BLOCKEND"},
                         parse_block_node),
              LAMBDA Q : parse_indentless_sequence(Q, Append(items, Q.v)))
    ELSE Returns(P, Node("seq", "seq", <<>>, items))

\* The pairs of a block mapping after BLOCKMAP, up to its BLOCKEND.
parse_block_mapping(P, pairs) ==
    IF check_token(P, {"KEY"})
    THEN Then(NodeUnless(get_token(P), {"KEY", "VALUE", "BLOCKEND"},
                         parse_block_node_or_indentless_sequence),
              LAMBDA K :
                 IF check_token(K, {"VALUE"})
                 THEN Then(NodeUnless(get_token(K), {"KEY", "VALUE", "BLOCKEND"},
                                      parse_block_node_or_indentless_sequence),
                           LAMBDA V : parse_block_mapping(V, Append(pairs, <<K.v, V.v>>)))
                 ELSE parse_block_mapping(K, Append(pairs, <<K.v, EmptyScalar>>)))
    ELSE IF ~check_token(P, {"BLOCKEND"}) THEN Fail(P)
    ELSE Returns(get_token(P), Node("map", "map", <<>>, pairs))

\* The items of a flow sequence after "[", up to its "]".
parse_flow_sequence(P, items) ==
    IF check_token(P, {"]"})
    THEN Returns(get_token(P), Node("seq", "seq", <<>>, items))
    ELSE IF items # <<>> /\ ~check_token(P, {","}) THEN Fail(P)
    ELSE LET Q == IF items # <<>> THEN get_token(P) ELSE P
         IN IF check_token(Q, {"KEY"})
            THEN Then(parse_flow_pair(get_token(Q), "]"),
                      LAMBDA R :
                         parse_flow_sequence(
                             R, Append(items, Node("map", "map", <<>>, <<R.v>>))))
            ELSE IF check_token(Q, {"]"})
            THEN Returns(get_token(Q), Node("seq", "seq", <<>>, items))
            ELSE Then(parse_flow_node(Q),
                      LAMBDA R : parse_flow_sequence(R, Append(items, R.v)))

\* The pairs of a flow mapping after "{", up to its "}".
parse_flow_mapping(P, pairs) ==
    IF check_token(P, {"}"})
    THEN Returns(get_token(P), Node("map", "map", <<>>, pairs))
    ELSE IF pairs # <<>> /\ ~check_token(P, {","}) THEN Fail(P)
    ELSE LET Q == IF pairs # <<>> THEN get_token(P) ELSE P
         IN IF check_token(Q, {"KEY"})
            THEN Then(parse_flow_pair(get_token(Q), "}"),
                      LAMBDA R : parse_flow_mapping(R, Append(pairs, R.v)))
            ELSE IF check_token(Q, {"}"})
            THEN Returns(get_token(Q), Node("map", "map", <<>>, pairs))
            ELSE Then(parse_flow_node(Q),
                      LAMBDA R : parse_flow_mapping(R, Append(pairs, <<R.v, EmptyScalar>>)))

\* The content of a node: what follows its anchor, if it has one.
parse_content(P, block, indentless_sequence, anchored) ==
    IF indentless_sequence /\ check_token(P, {"ENTRY"})
    THEN parse_indentless_sequence(P, <<>>)
    ELSE IF check_token(P, {"SCALAR"}) THEN Returns(get_token(P), ScalarNode(P.t[P.i]))
    ELSE IF check_token(P, {"["}) THEN parse_flow_sequence(get_token(P), <<>>)
    ELSE IF check_token(P, {"{"}) THEN parse_flow_mapping(get_token(P), <<>>)
    ELSE IF block /\ check_token(P, {"BLOCKSEQ"}) THEN parse_block_sequence(get_token(P), <<>>)
    ELSE IF block /\ check_token(P, {"BLOCKMAP"}) THEN parse_block_mapping(get_token(P), <<>>)
    ELSE IF anchored THEN empty_scalar(P)
    ELSE Fail(P)

\* Parser.parse_node and Composer.compose_node.  An alias is the node of
\* its anchor; an alias met inside the node it names, and an anchor on a
\* scalar of tag "value" (which construct_mapping retags in place), are
\* not modelled.
parse_node(P, block, indentless_sequence) ==
    LET name == P.t[P.i].val
        named == {a \in P.anchors : a.name = name}
    IN IF check_token(P, {"ALIAS"})
       THEN IF named = {} THEN Fail(P)
            ELSE IF \E a \in named : a.node = Pending THEN NotModelled(P)
            ELSE Returns(get_token(P), (CHOOSE a \in named : TRUE).node)
       ELSE IF check_token(P, {"ANCHOR"})
       THEN IF named # {} THEN Fail(P)
            ELSE Then(parse_content(
                          [get_token(P) EXCEPT
                              !.anchors = @ \cup {[name |-> name, node |-> Pending]}],
                          block, indentless_sequence, TRUE),
                      LAMBDA Q :
                         IF Q.v.kind = "scalar" /\ Q.v.tag = "value" THEN NotModelled(Q)
                         ELSE [Q EXCEPT !.anchors =
                                  {a \in @ : a.name # name}
                                     \cup {[name |-> name, node |-> Q.v]}])
       ELSE parse_content(P, block, indentless_sequence, FALSE)

RECURSIVE process_directives(_, _)
\* process_directives: a second %YAML and a major version other than 1
\* raise; seen tells that a %YAML has been met.
process_directives(P, seen) ==
    IF ~check_token(P, {"DIRECTIVE"}) THEN P
    ELSE LET value == P.t[P.i].val
         IN IF value[1] # <<"Y", "A", "M", "L">> THEN process_directives(get_token(P), seen)
            ELSE IF seen \/ value[2] # <<"1">> THEN Fail(P)
            ELSE process_directives(get_token(P), TRUE)

RECURSIVE skip_document_ends(_)
\* `while self.check_token(DocumentEndToken): self.get_token()`
skip_document_ends(P) ==
    IF check_token(P, {"DOCEND"}) THEN skip_document_ends(get_token(P)) ELSE P

\* parse_document_start: num is 1 when a document starts, 0 at the end of
\* the stream.
parse_document_start(P) ==
    LET P1 == skip_document_ends(P)
    IN IF check_token(P1, {"STREAMEND"}) THEN [P1 EXCEPT !.num = 0]
       ELSE Then(process_directives(P1, FALSE),
                 LAMBDA P2 : IF ~check_token(P2, {"DOCSTART"}) THEN Fail(P2)
                             ELSE [get_token(P2) EXCEPT !.num = 1])

parse_document_end(P) == IF check_token(P, {"DOCEND"}) THEN get_token(P) ELSE P

parse_document_content(P) ==
    NodeUnless(P, {"DIRECTIVE", "DOCSTART", "DOCEND", "STREAMEND"}, parse_block_node)

\* Composer.get_single_node over the parser's events: some is FALSE for a
\* stream without a document; a second document raises.
get_single_node(P) ==
    LET doc == IF ~check_token(P, {"DIRECTIVE", "DOCSTART", "STREAMEND"})
               THEN Then(parse_block_node(P),
                         LAMBDA Q : [parse_document_end(Q) EXCEPT !.some = TRUE])
               ELSE Then(parse_document_start(P),
                         LAMBDA Q :
                            IF Q.num = 0 THEN [Q EXCEPT !.some = FALSE]
                            ELSE Then(parse_document_content(Q),
                                      LAMBDA R :
                                         [parse_document_end(R) EXCEPT !.some = TRUE]))
    IN Then(doc,
            LAMBDA D : Then(parse_document_start(D),
                            LAMBDA E : IF E.num = 1 THEN Fail(E) ELSE D))

(* SafeConstructor: the node to the Python value.  A value is [t, s]: its  *)
(* type and, for a str its characters, for an int its decimal digits, for  *)
(* a bool, a float and a date its repr, for a list its items, for a dict   *)
(* its <<key, value>> pairs in insertion order, for None nothing.          *)

PyVal(t, s) == [t |-> t, s |-> s]
PyNone == PyVal("NoneType", <<>>)
PyStr(s) == PyVal("str", s)
PyBool(b) == PyVal("bool", IF b THEN Chars("True") ELSE Chars("False"))

Done(v) == [st |-> "ok", v |-> v]
Raises == [st |-> "raises", v |-> PyNone]
Unmodelled == [st |-> "unmodelled", v |-> PyNone]

Repeat(c, n) == [k \in 1..n |-> c]

Lowered(t) == [k \in 1..Len(t) |-> LowerChar(t[k])]

Without(t, c) == SelectSeq(t, LAMBDA x : x # c)

RECURSIVE MulAdd(_, _, _)
\* The decimal digits of n * m + c for n given by its decimal digits, zero
\* being no digit at all.
MulAdd(n, m, c) ==
    IF n = <<>>
    THEN IF c = 0 THEN <<>> ELSE MulAdd(<<>>, m, c \div 10) \o <<Chr(48 + (c % 10))>>
    ELSE LET x == HexVal(n[Len(n)]) * m + c
         IN MulAdd(SubSeq(n, 1, Len(n) - 1), m, x \div 10) \o <<Chr(48 + (x % 10))>>

RECURSIVE IntDigits(_, _, _)
\* int(text, base) as decimal digits, acc being the digits read so far
IntDigits(text, base, acc) ==
    IF text = <<>> THEN acc
    ELSE IntDigits(Tail(text), base, MulAdd(acc, base, HexVal(text[1])))

RECURSIVE Sexagesimal(_, _)
\* The base-60 number of the parts after the first, acc being the first
Sexagesimal(parts, acc) ==
    IF parts = <<>> THEN acc
    ELSE Sexagesimal(Tail(parts),
                     MulAdd(acc, 60, IF Len(parts[1]) = 1 THEN HexVal(parts[1][1])
                                     ELSE HexVal(parts[1][1]) * 10 + HexVal(parts[1][2])))

\* sys.int_info.default_max_str_digits: int(text) of more decimal digits
\* raises ValueError; int(text, base) for a base that is a power of two
\* has no such limit.
MaxStrDigits == 4300

\* int(text) of decimal digits as decimal digits: without its leading zeros
DecimalDigits(text) == LStrip(text, {"0"})

\* The int of a sign and decimal digits
PyInt(negative, digits) ==
    PyVal("int", IF digits = <<>> THEN <<"0">>
                 ELSE (IF negative THEN <<"-">> ELSE <<>>) \o digits)

construct_yaml_int(text) ==
    LET value0 == Without(text, "_")
        negative == value0[1] = "-"
        value == Unsigned(value0)
        rest == SubSeq(value, 3, Len(value))
    IN IF value = <<"0">> THEN Done(PyInt(FALSE, <<>>))
       ELSE IF Take(value, 2) = <<"0", "b">>
       THEN IF rest = <<>> THEN Raises ELSE Done(PyInt(negative, IntDigits(rest, 2, <<>>)))
       ELSE IF Take(value, 2) = <<"0", "x">>
       THEN IF rest = <<>> THEN Raises ELSE Done(PyInt(negative, IntDigits(rest, 16, <<>>)))
       ELSE IF value[1] = "0" THEN Done(PyInt(negative, IntDigits(value, 8, <<>>)))
       ELSE IF Has(value, ":")
       THEN LET parts == Split(value, ":")
            IN IF Len(parts[1]) > MaxStrDigits THEN Raises
               ELSE Done(PyInt(negative, Sexagesimal(Tail(parts), DecimalDigits(parts[1]))))
       ELSE IF Len(value) > MaxStrDigits THEN Raises
       ELSE Done(PyInt(negative, DecimalDigits(value)))

\* repr() of the float that is sign 0.digits * 10^decpt, for at most 15
\* digits with neither a leading nor a trailing zero
FloatRepr(negative, digits, decpt) ==
    LET n == Len(digits)
        sign == IF negative THEN <<"-">> ELSE <<>>
        e == IF decpt - 1 < 0 THEN 1 - decpt ELSE decpt - 1
        exponent == <<"e", IF decpt - 1 < 0 THEN "-" ELSE "+">>
                        \o (IF e < 10 THEN <<"0">> ELSE <<>>) \o Chars(ToString(e))
    IN sign \o
       (IF n = 0 THEN Chars("0.0")
        ELSE IF decpt <= -4 \/ decpt > 16
        THEN <<digits[1]>> \o (IF n > 1 THEN <<".">> \o Tail(digits) ELSE <<>>) \o exponent
        ELSE IF decpt <= 0 THEN <<"0", ".">> \o Repeat("0", -decpt) \o digits
        ELSE IF decpt >= n THEN digits \o Repeat("0", decpt - n) \o <<".", "0">>
        ELSE SubSeq(digits, 1, decpt) \o <<".">> \o SubSeq(digits, decpt + 1, n))

\* The float of a decimal numeral: integer digits, fraction digits and a
\* power of ten.  Not modelled where the nearest double may have another
\* repr: more than 15 significant digits, or a magnitude near the bounds.
PyFloat(negative, int_digits, frac_digits, exp10) ==
    LET all == int_digits \o frac_digits
        lead == Len(all) - Len(LStrip(all, {"0"}))
        digits == RStrip(LStrip(all, {"0"}), {"0"})
        decpt == Len(int_digits) - lead + exp10
    IN IF Len(digits) > 15 \/ (digits # <<>> /\ (decpt > 300 \/ decpt < -300))
       THEN Unmodelled
       ELSE Done(PyVal("float", FloatRepr(negative, digits, IF digits = <<>> THEN 1 ELSE decpt)))

\* int() of at most three digits after leading zeros; -1 for more
SmallInt(digits) ==
    LET d == LStrip(digits, {"0"})
    IN IF Len(d) > 3 THEN -1
       ELSE IF d = <<>> THEN 0
       ELSE IF Len(d) = 1 THEN HexVal(d[1])
       ELSE IF Len(d) = 2 THEN HexVal(d[1]) * 10 + HexVal(d[2])
       ELSE HexVal(d[1]) * 100 + HexVal(d[2]) * 10 + HexVal(d[3])

construct_yaml_float(text) ==
    LET value0 == Lowered(Without(text, "_"))
        negative == value0[1] = "-"
        value == Unsigned(value0)
        dot == FindChar(value, ".", 1)
        e == FindChar(value, "e", 1)
        mantissa == IF e = 0 THEN value ELSE SubSeq(value, 1, e - 1)
        mdot == FindChar(mantissa, ".", 1)
        exp_digits == SubSeq(value, e + 2, Len(value))
        exp10 == IF e = 0 THEN 0
                 ELSE IF value[e + 1] = "-" THEN -SmallInt(exp_digits)
                 ELSE SmallInt(exp_digits)
        parts == Split(SubSeq(value, 1, dot - 1), ":")
    IN IF value = Chars(".inf")
       THEN Done(PyVal("float", (IF negative THEN <<"-">> ELSE <<>>) \o Chars("inf")))
       ELSE IF value = Chars(".nan") THEN Done(PyVal("float", Chars("nan")))
       ELSE IF Has(value, ":")
       THEN IF ~AllIn(SubSeq(value, dot + 1, Len(value)), {"0"}) THEN Unmodelled
            ELSE PyFloat(negative,
                         Sexagesimal(Tail(parts), IntDigits(parts[1], 10, <<>>)), <<>>, 0)
       ELSE IF e > 0 /\ SmallInt(exp_digits) = -1 THEN Unmodelled
       ELSE PyFloat(negative, SubSeq(mantissa, 1, mdot - 1),
                    SubSeq(mantissa, mdot + 1, Len(mantissa)), exp10)

IsLeapYear(y) == y % 4 = 0 /\ (y % 100 # 0 \/ y % 400 = 0)

DaysInMonth(y, m) ==
    IF m = 2 THEN (IF IsLeapYear(y) THEN 29 ELSE 28)
    ELSE IF m \in {4, 6, 9, 11} THEN 30
    ELSE 31

\* construct_yaml_timestamp: datetime.date(year, month, day) for a date,
\* which raises for a date that does not exist; with a time, not modelled.
construct_yaml_timestamp(text) ==
    LET D(k) == HexVal(text[k])
        year == D(1) * 1000 + D(2) * 100 + D(3) * 10 + D(4)
        month == D(6) * 10 + D(7)
        day == D(9) * 10 + D(10)
    IN IF ~IsDateText(text) THEN Unmodelled
       ELSE IF year < 1 \/ month \notin 1..12 \/ day < 1 \/ day > DaysInMonth(year, month)
       THEN Raises
       ELSE Done(PyVal("date", text))

construct_scalar(node) ==
    IF node.tag = "str" THEN Done(PyStr(node.text))
    ELSE IF node.tag = "null" THEN Done(PyNone)
    ELSE IF node.tag = "bool"
    THEN Done(PyBool(Lowered(node.text) \in Words({"yes", "true", "on"})))
    ELSE IF node.tag = "int" THEN construct_yaml_int(node.text)
    ELSE IF node.tag = "float" THEN construct_yaml_float(node.text)
    ELSE IF node.tag = "timestamp" THEN construct_yaml_timestamp(node.text)
    ELSE IF node.tag = "unmodelled" THEN Unmodelled
    ELSE Raises

\* The int a float's repr denotes when the float is a whole number below
\* 10^16, else the repr itself: what a float compares by among the numbers.
FloatKey(r) ==
    LET whole == SubSeq(r, 1, Len(r) - 2)
    IN IF Len(r) < 2 \/ SubSeq(r, Len(r) - 1, Len(r)) # <<".", "0">> THEN r
       ELSE IF whole \in {<<"0">>, <<"-", "0">>} THEN <<"0">>
       ELSE whole

\* The text two numbers are equal by: True is 1, 1.0 is 1.
NumKey(v) ==
    IF v.t = "bool" THEN (IF v.s = Chars("True") THEN <<"1">> ELSE <<"0">>)
    ELSE IF v.t = "float" THEN FloatKey(v.s)
    ELSE v.s

\* a == b for two keys of a dict
KeyEq(a, b) ==
    IF a.t \in {"int", "bool", "float"} /\ b.t \in {"int", "bool", "float"}
    THEN NumKey(a) = NumKey(b)
    ELSE a.t = b.t /\ a.s = b.s

\* mapping[key] = value: the value of an equal key is replaced, the key
\* kept; a new key goes last.
DictSet(d, key, value) ==
    IF \E k \in 1..Len(d) : KeyEq(d[k][1], key)
    THEN [k \in 1..Len(d) |-> IF KeyEq(d[k][1], key) THEN <<d[k][1], value>> ELSE d[k]]
    ELSE Append(d, <<key, value>>)

RECURSIVE flatten_mapping(_)
RECURSIVE flatten_pairs(_, _, _)
RECURSIVE flatten_submerge(_, _)
RECURSIVE construct_object(_)
RECURSIVE construct_sequence(_, _)
RECURSIVE construct_pairs(_, _)

\* The mappings of a list merged by "<<", each flattened, the last first
flatten_submerge(nodes, merged) ==
    IF nodes = <<>> THEN Done(merged)
    ELSE IF nodes[1].kind # "map" THEN Raises
    ELSE Then(flatten_mapping(nodes[1]),
              LAMBDA r : flatten_submerge(Tail(nodes), r.v \o merged))

\* The loop of flatten_mapping: merged is what the "<<" keys met so far
\* brought, kept the pairs that stay.
flatten_pairs(pairs, merged, kept) ==
    IF pairs = <<>> THEN Done(merged \o kept)
    ELSE LET key_node == pairs[1][1]
             value_node == pairs[1][2]
         IN IF key_node.tag = "merge"
            THEN IF value_node.kind = "map"
                 THEN Then(flatten_mapping(value_node),
                           LAMBDA r : flatten_pairs(Tail(pairs), merged \o r.v, kept))
                 ELSE IF value_node.kind = "seq"
                 THEN Then(flatten_submerge(value_node.items, <<>>),
                           LAMBDA r : flatten_pairs(Tail(pairs), merged \o r.v, kept))
                 ELSE Raises
            ELSE IF key_node.tag = "value"
            THEN flatten_pairs(Tail(pairs), merged,
                               Append(kept, <<[key_node EXCEPT !.tag = "str"], value_node>>))
            ELSE flatten_pairs(Tail(pairs), merged, Append(kept, pairs[1]))

\* SafeConstructor.flatten_mapping: the pairs of the node afterwards
flatten_mapping(node) == flatten_pairs(node.items, <<>>, <<>>)

construct_sequence(nodes, items) ==
    IF nodes = <<>> THEN Done(PyVal("list", items))
    ELSE Then(construct_object(nodes[1]),
              LAMBDA r : construct_sequence(Tail(nodes), Append(items, r.v)))

\* BaseConstructor.construct_mapping over the flattened pairs.  A float of
\* 10^16 or more as a key is not modelled: whether it equals an int key
\* depends on the double nearest to it.
construct_pairs(pairs, mapping) ==
    IF pairs = <<>> THEN Done(PyVal("dict", mapping))
    ELSE Then(construct_object(pairs[1][1]),
              LAMBDA k :
                 IF k.v.t \in {"list", "dict"} THEN Raises
                 ELSE IF k.v.t = "float" /\ Has(k.v.s, "e") /\ Has(k.v.s, "+") THEN Unmodelled
                 ELSE Then(construct_object(pairs[1][2]),
                           LAMBDA v : construct_pairs(Tail(pairs),
                                                      DictSet(mapping, k.v, v.v))))

construct_object(node) ==
    IF node.kind = "seq" THEN construct_sequence(node.items, <<>>)
    ELSE IF node.kind = "map"
    THEN Then(flatten_mapping(node), LAMBDA r : construct_pairs(r.v, <<>>))
    ELSE construct_scalar(node)

Loaded(kind, val) == [kind |-> kind, val |-> val]

\* BaseConstructor.get_single_data: `if node is not None: return
\* self.construct_document(node)`, else None
construct_document(document, data) ==
    IF ~document.some THEN Loaded("ok", PyNone) ELSE Loaded(data.st, data.v)

get_single_data(document) ==
    IF document.st # "ok" THEN Loaded(document.st, PyNone)
    ELSE construct_document(document, construct_object(document.v))

load_tokens(scanned) ==
    IF scanned.st # "ok" THEN Loaded(scanned.st, PyNone)
    ELSE get_single_data(get_single_node(Parser(scanned.toks)))

\* yaml.load(text, Loader=yaml.SafeLoader): kind "ok" and the value, or
\* "raises", or "unmodelled".
yaml_load(text) == load_tokens(scan(Scanner(text)))

\* Lines 35-36 after yaml.load gave fm, or that it raised.  Where the YAML
\* is not modelled, either may be the case and the front matter is not
\* known.
returned(fm, text) ==
    LET raises == [raised |-> TRUE, front_matter |-> fm, markdown |-> <<>>]
        returns == [raised |-> FALSE, front_matter |-> fm, markdown |-> Strip(text)]
    IN IF fm.kind = "raises" THEN {raises}
       ELSE IF fm.kind = "ok" THEN {returns}
       ELSE {raises, returns}

\* Lines 34-36: what parse returns, or that yaml.load raised.
parse_return(loc) == returned(yaml_load(loc.raw_yaml), loc.markdown)

-----------------------------------------------------------------------------
(* Inputs *)

RECURSIVE SeqsUpTo(_, _)
SeqsUpTo(S, n) ==
    IF n = 0 THEN {<<>>}
    ELSE LET r == SeqsUpTo(S, n - 1)
         IN r \cup {Append(t, x) : t \in {u \in r : Len(u) = n - 1}, x \in S}

AuthorKeys == {"u1", "u2"}
AuthorArgs == {NoneV} \cup {Some(a) : a \in SeqsUpTo(AuthorKeys, MaxAuthors)}

Levels == {1, 2}
HeadingTexts == {<<>>, <<"T">>, <<"U">>}

SRC_ABS == <<"/", "i", "/", "a", ".", "p", "n", "g">>
SRC_HTTP == <<"h", "t", "t", "p", ":", "/", "/", "h", "/", "a", ".", "p", "n", "g">>
SRC_NOSCHEME == <<"/", "/", "h", "/", "b", ".", "p", "n", "g">>
SRC_REL == <<"a", ".", "p", "n", "g">>
SRC_SCHEME_ONLY == <<"x", ":", "/", "a", ".", "p", "n", "g">>
SRC_BAD_SCHEME == <<"1", "x", ":", "/", "/", "h", "/", "a">>
SRC_FORMFEED == <<"\f", "/", "/", "h", "/", "a">>
SRC_TAB == <<"/", "\t", "/", "h", "/", "a">>
SRC_OPEN_BRACKET == <<"/", "/", "[">>
SRC_NOT_IP == <<"/", "/", "[", "x", "]", "/">>
SRC_IPV4_BRACKET == <<"/", "/", "[", "1", ".", "2", ".", "3", ".", "4", "]", "/", "a">>
SRC_IPV6 == <<"/", "/", "[", ":", ":", "1", "]", "/", "a">>
SRC_IPVFUTURE == <<"/", "/", "[", "v", "1", ".", "x", "]", "/", "a">>
SRC_NBSP == <<NBSP, "/", "/", "h">>

\* The paths and URLs of each kind urlparse tells apart.
AllSrcs ==
    {SRC_ABS, SRC_HTTP, SRC_NOSCHEME, SRC_REL, SRC_SCHEME_ONLY, SRC_BAD_SCHEME,
     SRC_FORMFEED, SRC_TAB, SRC_OPEN_BRACKET, SRC_NOT_IP, SRC_IPV4_BRACKET,
     SRC_IPV6, SRC_IPVFUTURE, SRC_NBSP}

\* Those passed where the other callbacks are called too: an internal
\* path, an external URL and one urlparse refuses.
Srcs == {SRC_ABS, SRC_HTTP, SRC_OPEN_BRACKET}

Codes == {<<"x", "<", "1">>, <<E_ACUTE, "\f", "\"", "(0x7f)">>}
Langs == {NoneV, Some(<<"p", "y">>), Some(MERMAID)}

\* A paragraph as the tests of block_quote spell one: without the line feed
\* HTMLRenderer.paragraph ends it with.
test_paragraph(text) == P_OPEN \o text \o P_CLOSE

\* Block quote contents.  As the tests pass them: one paragraph and two
\* paragraphs; no paragraph; a paragraph or none followed by a code block
\* whose source holds a paragraph tag.  As the engine renders a quote's
\* children: one paragraph and two paragraphs.
QUOTE_ONE == test_paragraph(<<"X">>)
QUOTE_TWO == test_paragraph(<<"A">>) \o test_paragraph(<<"B">>)
QUOTE_NONE == <<"X">>
QUOTE_CODE_OPEN == test_paragraph(<<"a">>) \o <<CODE_A, CODE_B>> \o P_OPEN \o <<CODE_C>>
QUOTE_CODE_CLOSE == <<CODE_A, CODE_B>> \o P_CLOSE \o <<CODE_C>>
QUOTE_RENDERED_ONE == HTMLRenderer_paragraph(<<"X">>)
QUOTE_RENDERED_TWO == HTMLRenderer_paragraph(<<"A">>) \o HTMLRenderer_paragraph(<<"B">>)

Contents ==
    IF pc = "direct"
    THEN {QUOTE_ONE, QUOTE_TWO, QUOTE_NONE, QUOTE_CODE_OPEN, QUOTE_CODE_CLOSE,
          QUOTE_RENDERED_ONE, QUOTE_RENDERED_TWO}
    ELSE {QUOTE_RENDERED_ONE, QUOTE_RENDERED_TWO}

LinkTitles == {NoneV, Some(<<"t">>)}
LinkContents == {Some(<<"c", "&">>)}
LayoutContents == {<<>>, <<"C">>}

\* TestConvertParse.have_yaml, the front matter of the repository's tests.
have_yaml ==
    Chars("authors:\n  - username1\n  - username2\ntitle: Test\nwiki:\n")
    \o Chars("  share: true\n  space: ~username\n  ancestor_id: 12345678\n")

\* TestConvertParse.want_yaml, as the value yaml.load returns.
want_yaml ==
    PyVal("dict",
          << <<PyStr(Chars("authors")),
               PyVal("list", <<PyStr(Chars("username1")), PyStr(Chars("username2"))>>)>>,
             <<PyStr(Chars("title")), PyStr(Chars("Test"))>>,
             <<PyStr(Chars("wiki")),
               PyVal("dict",
                     << <<PyStr(Chars("share")), PyBool(TRUE)>>,
                        <<PyStr(Chars("space")), PyStr(Chars("~username"))>>,
                        <<PyStr(Chars("ancestor_id")),
                          PyVal("int", Chars("12345678"))>> >>)>> >>)

FENCE == <<"(grave)", "(grave)", "(grave)">>

\* TestConvertParse.have_markdown: a fenced code block with boundary lines.
have_markdown ==
    Chars("# Heading\n\n") \o FENCE \o Chars("yaml\n---\ncontent\n---\n")
    \o FENCE \o <<"\n">>

\* TestConvertParse.want_markdown
want_markdown == Strip(have_markdown)

\* The YAML blocks Y a post is written from: the tests' front matter, as
\* it is and as '\n'.join writes it, and blocks of each kind of line.
YamlBlocks ==
    {have_yaml, have_yaml \o <<"\n">>}
    \cup {Chars(y) : y \in
            {"title: F\n", "title: F\nk: 1\n", "k: 1\ntitle: F\ntitle: G\n",
             "#c\n", " #c\n\n", "\n", "  share: true\n", "k:\n", "k: v #c\n",
             "\"a b\": 'q'\n", "k : 1\n", "-k: 1\n", "? k\n", "[a, b]\n",
             "x\n\nx\n", "k: |+\n  x\n", "k: 1\r\nj: 2\r\n",
             "k: a: b\n", "--- a\n", "...\n", "%YAML 1.1\n--- a\n"}}

BOUNDARY_LINE == <<"-", "-", "-", "\n">>
BodyLines == {<<"x", "\n">>, <<"\n">>, BOUNDARY_LINE, <<"y", "\r", "\n">>}
ClosingLines == {BOUNDARY_LINE, <<" ", "-", "-", "-", " ", "\n">>}

\* The Markdown bodies B: the tests' body, and bodies of a few lines.
Bodies ==
    {have_markdown}
    \cup {Flatten(bl) : bl \in SeqsUpTo(BodyLines, MaxBodyLines)}

\* The file: Y and B with n boundary lines written around Y.
PostText(y, b, n, closing) ==
    (IF n = 2 THEN BOUNDARY_LINE ELSE <<>>)
    \o y
    \o (IF n >= 1 THEN closing ELSE <<>>)
    \o b

FrontMatters ==
    {NoneV, Some({})}
    \cup {Some({<<"title", t>>}) : t \in {Some(<<"F">>), Some(<<"T">>), NoneV}}
    \cup {Some({<<"author_keys", a>>}) : a \in {NoneV, Some(<<"u1">>)}}
    \cup {Some({<<"title", Some(<<"F">>)>>, <<"author_keys", Some(<<"u1", "u2">>)>>})}

-----------------------------------------------------------------------------
(* Callbacks as steps.  With pc = "direct" a caller invokes them in any    *)
(* order; with pc = "render" the Markdown engine invokes them, one per     *)
(* node of the body in document order, and joins what they return; a       *)
(* callback that raises ends convtoconf with its exception, pc "raised".   *)

NoCall == [op |-> "init", args |-> <<>>, ret |-> <<>>, raised |-> FALSE]

Record(op, args, r) ==
    /\ pc \in {"direct", "render"}
    /\ ncalls < MaxCalls
    /\ renderer' = r.self
    /\ call' = [op |-> op, args |-> args, ret |-> r.ret, raised |-> r.raised]
    /\ ncalls' = ncalls + 1
    /\ body' = IF pc = "render" /\ ~r.raised THEN body \o Emit(op, r.ret) ELSE body
    /\ pc' = IF pc = "render" /\ r.raised THEN "raised" ELSE pc
    /\ UNCHANGED <<authors_arg, front_matter, result, pvars>>

CallHeading ==
    \E text \in HeadingTexts, level \in Levels :
        LET r == heading(renderer, text, level)
        IN /\ Record("heading", <<text, level>>, r)
           /\ hlevels' = hlevels \cup {level}
           /\ h1first' = IF level = 1 /\ 1 \notin hlevels THEN Some(text) ELSE h1first
           /\ suppressed' = IF r.ret = <<>> THEN suppressed \cup {text} ELSE suppressed
           /\ UNCHANGED <<images, layout_calls>>

CallImageOf(srcs) ==
    \E src \in srcs :
        /\ Record("image", <<src>>, image(renderer, src, NoneV, <<>>))
        /\ images' = Append(images, src)
        /\ UNCHANGED <<hlevels, h1first, suppressed, layout_calls>>

CallImage == CallImageOf(Srcs)

CallAnyImage == CallImageOf(AllSrcs)

CallBlockQuote ==
    \E content \in Contents :
        /\ Record("block_quote", <<content>>, block_quote(renderer, content))
        /\ UNCHANGED <<images, hlevels, h1first, suppressed, layout_calls>>

CallBlockCode ==
    \E code \in Codes, lang \in Langs :
        /\ Record("block_code", <<code, lang>>, block_code(renderer, code, lang))
        /\ UNCHANGED <<images, hlevels, h1first, suppressed, layout_calls>>

CallLinkOf(links, titles) ==
    \E link_ \in links, title_ \in titles, content \in LinkContents :
        /\ pc = "direct"
        /\ Record("link", <<link_, title_, content>>, link(renderer, link_, title_, content))
        /\ UNCHANGED <<images, hlevels, h1first, suppressed, layout_calls>>

CallLink == CallLinkOf(Srcs, LinkTitles)

CallAnyLink == CallLinkOf(AllSrcs, {NoneV})

CallRenderAuthors ==
    /\ pc = "direct"
    /\ Record("render_authors", <<>>, render_authors(renderer))
    /\ UNCHANGED <<images, hlevels, h1first, suppressed, layout_calls>>

CallLayout ==
    \E content \in LayoutContents :
        /\ pc = "direct"
        /\ Record("layout", <<content>>, layout(renderer, content))
        /\ layout_calls' = layout_calls + 1
        /\ UNCHANGED <<images, hlevels, h1first, suppressed>>

\* convtoconf after the engine has returned page_html: lines 48-50.
Return ==
    /\ pc = "render"
    /\ pc' = "done"
    /\ result' = Some([page_html |-> body,
                       attachments |-> renderer.attachments,
                       title |-> title(front_matter, renderer)])
    /\ UNCHANGED <<rvars, front_matter, body, layout_calls, pvars>>

\* parse: one line of the loop, lines 24-33.
ReadLine ==
    /\ pc = "parse"
    /\ ~parsed.some
    /\ unread # <<>>
    /\ LET loc == parse_line([raw_yaml |-> raw_yaml, markdown |-> markdown,
                              in_yaml |-> in_yaml], Head(unread))
       IN /\ raw_yaml' = loc.raw_yaml
          /\ markdown' = loc.markdown
          /\ in_yaml' = loc.in_yaml
    /\ unread' = Tail(unread)
    /\ UNCHANGED <<rvars, cvars, post, y_block, m_body, boundaries, parsed>>

\* parse: after the loop, lines 34-36.
LoadAndReturn ==
    /\ pc = "parse"
    /\ ~parsed.some
    /\ unread = <<>>
    /\ \E r \in parse_return([raw_yaml |-> raw_yaml, markdown |-> markdown,
                               in_yaml |-> in_yaml]) :
          parsed' = Some(r)
    /\ UNCHANGED <<rvars, cvars, post, y_block, m_body, boundaries, unread,
                   raw_yaml, markdown, in_yaml>>

vars == <<rvars, cvars, pvars>>

NoParse ==
    /\ post = <<>>
    /\ y_block = <<>>
    /\ m_body = <<>>
    /\ boundaries = 0
    /\ unread = <<>>
    /\ raw_yaml = <<>>
    /\ markdown = <<>>
    /\ in_yaml = TRUE
    /\ parsed = NoneV

\* A renderer as constructed, its callbacks called by hand.
InitRenderer ==
    /\ authors_arg \in AuthorArgs
    /\ renderer = ConfluenceRenderer(authors_arg)
    /\ call = NoCall
    /\ ncalls = 0
    /\ images = <<>>
    /\ hlevels = {}
    /\ h1first = NoneV
    /\ suppressed = {}
    /\ front_matter = NoneV
    /\ pc = "direct"
    /\ body = <<>>
    /\ layout_calls = 0
    /\ result = NoneV
    /\ NoParse

NextRenderer ==
    \/ CallHeading
    \/ CallImage
    \/ CallBlockQuote
    \/ CallBlockCode
    \/ CallLink
    \/ CallRenderAuthors
    \/ CallLayout

Spec == InitRenderer /\ [][NextRenderer]_vars

\* The callbacks called by hand, image and link with paths and URLs of
\* every kind.
NextImage ==
    \/ CallAnyImage
    \/ CallAnyLink
    \/ CallHeading
    \/ CallBlockQuote
    \/ CallBlockCode
    \/ CallRenderAuthors
    \/ CallLayout

\* ConfluenceRenderer(): constructed without authors.
InitImage == InitRenderer /\ authors_arg = NoneV

SpecImage == InitImage /\ [][NextImage]_vars

\* convtoconf(markdown, front_matter) up to line 45: the renderer is
\* constructed with the front matter's author keys.
InitConv ==
    /\ front_matter \in FrontMatters
    /\ authors_arg = author_keys(front_matter)
    /\ renderer = ConfluenceRenderer(authors_arg)
    /\ call = NoCall
    /\ ncalls = 0
    /\ images = <<>>
    /\ hlevels = {}
    /\ h1first = NoneV
    /\ suppressed = {}
    /\ pc = "render"
    /\ body = <<>>
    /\ layout_calls = 0
    /\ result = NoneV
    /\ NoParse

NextConv ==
    \/ CallHeading
    \/ CallImage
    \/ CallBlockQuote
    \/ CallBlockCode
    \/ Return

SpecConv == InitConv /\ [][NextConv]_vars

\* parse(post_path) at line 24, the file read: locals as set by lines 20-22.
InitParse ==
    /\ \E y \in YamlBlocks, b \in Bodies, n \in 0..2, closing \in ClosingLines :
            /\ n = 0 => closing = BOUNDARY_LINE
            /\ y_block = y
            /\ m_body = b
            /\ boundaries = n
            /\ post = PostText(y, b, n, closing)
    /\ unread = readlines(post)
    /\ raw_yaml = <<>>
    /\ markdown = <<>>
    /\ in_yaml = TRUE
    /\ parsed = NoneV
    /\ authors_arg = NoneV
    /\ renderer = ConfluenceRenderer(NoneV)
    /\ call = NoCall
    /\ ncalls = 0
    /\ images = <<>>
    /\ hlevels = {}
    /\ h1first = NoneV
    /\ suppressed = {}
    /\ front_matter = NoneV
    /\ pc = "parse"
    /\ body = <<>>
    /\ layout_calls = 0
    /\ result = NoneV

NextParse ==
    \/ ReadLine
    \/ LoadAndReturn

SpecParse == InitParse /\ [][NextParse]_vars

-----------------------------------------------------------------------------
(* Properties of the renderer callbacks (specifications Spec, SpecImage)   *)

\* The part of a path after its last "/": the suffix without "/" that is
\* the whole path or follows a "/".
LastSegment(src) ==
    CHOOSE t \in {SubSeq(src, k, Len(src)) : k \in 1..(Len(src) + 1)} :
        /\ \A k \in 1..Len(t) : t[k] # "/"
        /\ (Len(t) = Len(src) \/ src[Len(src) - Len(t)] = "/")

AttachmentRef(name) ==
    <<"<ac:image>", "<ri:attachment ri:filename=\"">> \o name \o <<"\" />", "</ac:image>">>

UrlRef(src) ==
    <<"<ac:image>", "<ri:url ri:value=\"">> \o src \o <<"\" />", "</ac:image>">>

\* C1: attachments is at every point the sequence of the srcs passed to
\* image() whose network location is empty, in call order with duplicates,
\* whatever other callbacks were made in between; image() of such a src
\* returns an attachment reference naming its last path segment, image() of
\* a src with a network location returns a URL reference holding src.  (A
\* src that urlparse refuses has no network location: image() raises and
\* attachments stays as it was.)
C1_AttachmentsAreInternalImages ==
    /\ renderer.attachments =
          SelectSeq(images, LAMBDA src : ~netloc(src).raised /\ netloc(src).val = <<>>)
    /\ call.op = "image" =>
          LET src == call.args[1]
          IN IF netloc(src).raised THEN call.raised
             ELSE /\ ~call.raised
                  /\ IF netloc(src).val = <<>>
                     THEN call.ret = AttachmentRef(LastSegment(src))
                     ELSE call.ret = UrlRef(src)

\* Two images of the same internal src and an external one were rendered.
C1_Witness ==
    /\ Len(images) = 3
    /\ \E k \in 1..3 : ~netloc(images[k]).raised /\ netloc(images[k]).val # <<>>
    /\ Len(renderer.attachments) = 2
    /\ renderer.attachments[1] = renderer.attachments[2]

HeadingElement(text, level) ==
    <<"<h" \o ToString(level) \o ">">> \o text \o <<"</h" \o ToString(level) \o ">", "\n">>

\* C2: top_heading, once set, never changes; it changes only in the first
\* heading call with level 1, to that call's text, and that call returns
\* empty output; every other heading call returns the heading element of
\* its level around its text and leaves top_heading alone; every heading
\* call leaves has_toc true.
C2_TopHeadingSetOnce ==
    [][/\ renderer.top_heading.some => renderer'.top_heading = renderer.top_heading
       /\ renderer'.top_heading # renderer.top_heading =>
             /\ call'.op = "heading"
             /\ call'.args[2] = 1
             /\ 1 \notin hlevels
       /\ (ncalls' = ncalls + 1 /\ call'.op = "heading") =>
             LET text == call'.args[1]
                 level == call'.args[2]
                 first == level = 1 /\ 1 \notin hlevels
             IN /\ renderer'.has_toc
                /\ first => /\ call'.ret = <<>>
                            /\ renderer'.top_heading = Some(text)
                /\ ~first => /\ call'.ret = HeadingElement(text, level)
                             /\ renderer'.top_heading = renderer.top_heading
      ]_vars

\* A second level-1 heading was rendered as a heading after a first one
\* with empty text had been taken as the top heading.
C2_Witness ==
    /\ call.op = "heading"
    /\ call.args[2] = 1
    /\ call.ret = HeadingElement(call.args[1], 1)
    /\ renderer.top_heading = Some(<<>>)

\* The text without its one opening and its one closing paragraph tag.
RemoveOnePair(c) ==
    LET i == CHOOSE k \in 1..Len(c) : MatchAt(c, P_OPEN, k)
        c1 == SubSeq(c, 1, i - 1) \o SubSeq(c, i + Len(P_OPEN), Len(c))
        j == CHOOSE k \in 1..Len(c1) : MatchAt(c1, P_CLOSE, k)
    IN SubSeq(c1, 1, j - 1) \o SubSeq(c1, j + Len(P_CLOSE), Len(c1))

\* C7: block_quote removes paragraph tags only from a content with exactly
\* one opening and exactly one closing paragraph tag, and then exactly that
\* pair; any other content reaches the default blockquote unmodified.
C7_StripsExactlyOnePair ==
    call.op = "block_quote" =>
        LET c == call.args[1]
        IN IF Count(c, P_OPEN) = 1 /\ Count(c, P_CLOSE) = 1
           THEN call.ret = HTMLRenderer_block_quote(RemoveOnePair(c))
           ELSE call.ret = HTMLRenderer_block_quote(c)

\* C8: render_authors returns the Authors heading and one paragraph holding
\* one fragment per author, in order, each a profile-picture macro and a
\* user link naming that author, with a line break between consecutive
\* fragments and nowhere else; with no authors (None included) the
\* paragraph is empty; the renderer is left as it was.
C8_AuthorsFragment ==
    [][(ncalls' = ncalls + 1 /\ call'.op = "render_authors") =>
          LET given == IF authors_arg.some THEN authors_arg.val ELSE <<>>
              n == Len(given)
              ret == call'.ret
              inner == SubSeq(ret, 5, Len(ret) - 4)
          IN /\ renderer' = renderer
             /\ renderer.authors = given
             /\ Len(ret) = 8 + 5 * n + (IF n = 0 THEN 0 ELSE n - 1)
             /\ SubSeq(ret, 1, 4) = <<"<h1>Authors</h1>">> \o P_OPEN
             /\ SubSeq(ret, Len(ret) - 3, Len(ret)) = P_CLOSE
             /\ \A i \in 1..n :
                   LET b == 6 * (i - 1)
                   IN /\ inner[b + 1] = AUTHOR_A
                      /\ inner[b + 2] = given[i]
                      /\ inner[b + 3] = AUTHOR_B
                      /\ inner[b + 4] = given[i]
                      /\ inner[b + 5] = AUTHOR_C
                      /\ i < n => inner[b + 6] = "<br />"
             /\ Cardinality({k \in 1..Len(ret) : ret[k] = "<br />"})
                   = (IF n = 0 THEN 0 ELSE n - 1)
      ]_vars

\* render_authors was called on a renderer with two different authors.
C8_Witness ==
    /\ call.op = "render_authors"
    /\ Len(renderer.authors) = 2
    /\ renderer.authors[1] # renderer.authors[2]

TocFragment == <<TOC_A>> \o P_OPEN \o <<TOC_B>> \o P_CLOSE

\* C9: has_toc starts false, never returns to false, and is true exactly
\* when heading() has been called (at any level, a level-1 heading that was
\* dropped as the title included); layout() puts the table of contents
\* in front of the authors in the sidebar exactly when has_toc is true, and
\* otherwise the sidebar holds the authors fragment alone.
C9_TocIffHeadingSeen ==
    /\ ~renderer.has_toc
    /\ [][/\ renderer.has_toc => renderer'.has_toc
          /\ renderer'.has_toc <=> hlevels' # {}
          /\ (ncalls' = ncalls + 1 /\ call'.op = "layout") =>
                LET authors == render_authors(renderer').ret
                    main == column("800px", call'.args[1])
                IN /\ hlevels' # {} =>
                         call'.ret = column("30%", TocFragment \o authors) \o main
                   /\ hlevels' = {} =>
                         call'.ret = column("30%", authors) \o main
         ]_vars

\* layout() was called after one heading, a level-1 heading that was dropped.
C9_Witness ==
    /\ call.op = "layout"
    /\ hlevels = {1}
    /\ suppressed # {}
    /\ ncalls = 2
    /\ Count(call.ret, <<TOC_B>>) = 1

-----------------------------------------------------------------------------
(* Properties of convtoconf (specification SpecConv)                       *)

HasTitleKey(fm) == fm.some /\ \E e \in fm.val : e[1] = "title"

FrontTitle(fm) == (CHOOSE e \in fm.val : e[1] = "title")[2]

\* C3: the title convtoconf returns is the front matter's title when the
\* front matter has the key, else the text of the first level-1 heading of
\* the body, else None; a None or empty front matter is an empty mapping:
\* no author, and the title is the heading's or None.
C3_TitlePrecedence ==
    pc = "done" =>
        /\ result.val.title =
              (IF HasTitleKey(front_matter) THEN FrontTitle(front_matter)
               ELSE IF 1 \in hlevels THEN h1first
               ELSE NoneV)
        /\ (~front_matter.some \/ front_matter.val = {}) => renderer.authors = <<>>

\* A run returned with a title in the front matter and a level-1 heading in
\* the body.
C3_Witness ==
    /\ pc = "done"
    /\ HasTitleKey(front_matter)
    /\ h1first.some
    /\ result.val.title = Some(<<"F">>)

\* C4: when convtoconf returns, layout has been invoked exactly once and the
\* returned html is the layout of the rendered body: the 30% sidebar column
\* followed by the 800px content column.
C4_ReturnsLayout ==
    pc = "done" =>
        /\ layout_calls = 1
        /\ result.val.page_html = layout(renderer, body).ret

\* C10 as claimed: whatever the front matter, the text of a heading that
\* returned empty output is the title convtoconf returns.
C10_SuppressedHeadingIsTitle ==
    pc = "done" => \A t \in suppressed : result.val.title = Some(t)

\* C10 as amended: without a title key in the front matter the text of a
\* heading that returned empty output is the title convtoconf returns; with
\* a title key the value of that key is returned, whether or not it is the
\* text of the suppressed heading.
C10_SuppressedHeadingIsTitleUnlessOverridden ==
    pc = "done" =>
        IF HasTitleKey(front_matter)
        THEN result.val.title = FrontTitle(front_matter)
        ELSE \A t \in suppressed : result.val.title = Some(t)

\* A run without a title key returned after a level-1 heading was dropped
\* and a later level-1 heading was rendered.
C10_Witness ==
    /\ pc = "done"
    /\ ~HasTitleKey(front_matter)
    /\ suppressed # {}
    /\ \E k \in 1..Len(body) : body[k] = "<h1>"

-----------------------------------------------------------------------------
(* Properties of parse (specification SpecParse)                           *)

\* Whether a line of the file is a boundary line, as line 26 tests it.
IsBoundaryLine(line) == Strip(line) = YAML_BOUNDARY

\* The first YAML token of a text; "" when it has none.
FirstToken(y) ==
    LET s == scan(Scanner(y))
    IN IF s.toks = <<>> THEN "" ELSE s.toks[1].id

\* Y opens with a directive or a document marker of its own.
OpensWithMarker(y) == FirstToken(y) \in {"DIRECTIVE", "DOCSTART", "DOCEND"}

\* What parse returned is what decoding the text y gives, raising where
\* that raises; nothing is said of a text whose YAML is not modelled.
ReturnsDecoded(y) ==
    LET fm == yaml_load(y)
    IN fm.kind # "unmodelled" =>
          /\ parsed.val.raised <=> fm.kind = "raises"
          /\ parsed.val.front_matter = fm

\* parse returned the front matter decoded from Y, and B stripped.
SplitsIntoYamlAndBody ==
    /\ ~parsed.val.raised
    /\ parsed.val.front_matter = yaml_load(y_block)
    /\ parsed.val.markdown = Strip(m_body)

\* C5 as claimed: for a file written as Y, closing boundary, B, and for one
\* written as opening boundary, Y, closing boundary, B, where Y is a block
\* the YAML decoder accepts, parse returns the front matter decoded from Y
\* and B stripped of leading and trailing whitespace.
C5_OneAndTwoBoundariesAgree ==
    (parsed.some /\ boundaries \in {1, 2} /\ yaml_load(y_block).kind = "ok") =>
        SplitsIntoYamlAndBody

\* C5 as amended: the file is read in text mode, so the body returned is B
\* with "\r\n" and "\r" read as "\n", stripped, every boundary line inside
\* B kept; the one-boundary form returns the front matter decoded from Y;
\* so does the two-boundary form unless Y opens with a directive or a
\* document marker of its own, and it raises when Y opens with a directive
\* or a document start marker (the text then holds two documents).  The
\* posts of the repository's tests return want_yaml and want_markdown.
C5_OneAndTwoBoundariesAgreeAsRead ==
    (parsed.some /\ boundaries \in {1, 2}) =>
        /\ ~parsed.val.raised =>
              parsed.val.markdown = Strip(universal_newlines(m_body))
        /\ boundaries = 1 => ReturnsDecoded(y_block)
        /\ (boundaries = 2 /\ ~OpensWithMarker(y_block)) => ReturnsDecoded(y_block)
        /\ (boundaries = 2 /\ FirstToken(y_block) \in {"DIRECTIVE", "DOCSTART"}) =>
              parsed.val.raised
        /\ (y_block = have_yaml \o <<"\n">> /\ m_body = have_markdown) =>
              /\ ~parsed.val.raised
              /\ parsed.val.front_matter.val = want_yaml
              /\ parsed.val.markdown = want_markdown

\* The two-boundary post of the repository's tests was parsed: a mapping
\* with a nested sequence and mapping, and a body holding boundary lines.
C5_Witness ==
    /\ parsed.some
    /\ boundaries = 2
    /\ post = BOUNDARY_LINE \o have_yaml \o <<"\n">> \o BOUNDARY_LINE \o have_markdown
    /\ parsed.val.front_matter.val.t = "dict"
    /\ Count(parsed.val.markdown, YAML_BOUNDARY) = 2

\* C6 as claimed: a file written as Y directly followed by B is split like
\* the one- and two-boundary files.
C6_ZeroBoundariesAgree ==
    (parsed.some /\ boundaries = 0 /\ yaml_load(y_block).kind = "ok") =>
        SplitsIntoYamlAndBody

\* The index of the first line of ls that is a boundary line; 0 if none.
FirstBoundary(ls) ==
    LET ks == {k \in 1..Len(ls) : IsBoundaryLine(ls[k])}
    IN IF ks = {} THEN 0 ELSE Min(ks)

BodyBeforeBoundary(b) ==
    LET ls == splitlines(b)
        k == FirstBoundary(ls)
    IN IF k = 0 THEN b ELSE Flatten(SubSeq(ls, 1, k - 1))

BodyAfterBoundary(b) ==
    LET ls == splitlines(b)
        k == FirstBoundary(ls)
    IN IF k = 0 THEN <<>> ELSE Flatten(SubSeq(ls, k + 1, Len(ls)))

\* C6 as amended: for a file written as Y directly followed by B (read in
\* text mode), the front matter text is Y and the lines of B up to B's
\* first boundary line (all of B if it has none), that line is dropped, and
\* the body is the rest of B, stripped; the result is not that of the one-
\* and two-boundary files unless B is blank.
C6_ZeroBoundariesSplitInsideBody ==
    (parsed.some /\ boundaries = 0) =>
        LET b == universal_newlines(m_body)
        IN /\ raw_yaml = universal_newlines(y_block) \o BodyBeforeBoundary(b)
           /\ markdown = BodyAfterBoundary(b)
           /\ ReturnsDecoded(raw_yaml)
           /\ ~parsed.val.raised => parsed.val.markdown = Strip(BodyAfterBoundary(b))
           /\ Strip(m_body) # <<>> => ~SplitsIntoYamlAndBody

\* A zero-boundary file was parsed whose body holds a boundary line with
\* text after it: the text before that line went into the front matter.
C6_Witness ==
    /\ parsed.some
    /\ boundaries = 0
    /\ ~parsed.val.raised
    /\ parsed.val.front_matter # yaml_load(y_block)
    /\ parsed.val.markdown # <<>>
    /\ parsed.val.markdown # Strip(m_body)

=============================================================================
